---------------------------- MODULE Spec2Model ----------------------------
(***************************************************************************)
(* A model of the Owl-2820 virtual machine: the executor (OwlCpu), the     *)
(* Owl and RV32I dispatchers, the field codecs, the assembler's emitters   *)
(* and the RV32I-to-Owl transcoder.                                        *)
(*                                                                         *)
(* Representation of machine words.  The model checker's integers are 32   *)
(* bits wide and signed, so a uint32_t bit pattern b31..b0 is represented  *)
(* by the integer with the same two's-complement pattern: the value u for  *)
(* u < 2^31 and u - 2^32 otherwise.  A static_cast between uint32_t and    *)
(* int32_t is therefore the identity on representations; unsigned          *)
(* operations (comparison, logical shift) are spelled out on the pattern.  *)
(* Hexadecimal words with bit 31 set are written Word(hi16, lo16).         *)
(***************************************************************************)
EXTENDS Integers, Sequences, FiniteSets, TLC

VARIABLES
    cpu,    \* the OwlCpu object: pc, nextPc, x, done, memory (code is the same bytes)
    ins,    \* Run's local: the word returned by the last Fetch
    loc,    \* position in Run / RunRv32i: "loop", "dispatch", "returned"
    isa,    \* which loop is running: "owl" (Run) or "rv32i" (RunRv32i)
    big,    \* std::endian::native == std::endian::big for this build
    cout,   \* what the Ecall handler has written to std::cout, as events
    steps,  \* number of loop iterations started
    asm,    \* the Assembler object: code_, current_, labels_, fixups_
    log     \* main: what each run that has returned wrote to std::cout, one entry per run

vars == <<cpu, ins, loc, isa, big, cout, steps, asm, log>>

---------------------------------------------------------------------------
(* 32-bit arithmetic on the representation.                                *)

Half == 2 ^ 16

\* The word whose upper 16 bits are hi and lower 16 bits are lo (hi taken modulo 2^16).
Word(hi, lo) == (((hi + 32768) % Half) - 32768) * Half + lo

\* Bit i (0..31) of word w.
Bit(w, i) == IF i = 31 THEN (IF w < 0 THEN 1 ELSE 0) ELSE (w \div (2 ^ i)) % 2

\* The word with the given bits, f a function on 0..31.
FromBits(f) ==
    LET nibble(i) == (f[i] + 2 * f[i + 1]) + (4 * f[i + 2] + 8 * f[i + 3])
        lo == (nibble(0) + 16 * nibble(4)) + 256 * (nibble(8) + 16 * nibble(12))
        hi == (nibble(16) + 16 * nibble(20)) + 256 * (nibble(24) + 16 * nibble(28))
    IN  Word(hi, lo)

\* uint32_t a + b (modular).
Add32(a, b) ==
    LET lo == (a % Half) + (b % Half)
    IN  Word((a \div Half) + (b \div Half) + (lo \div Half), lo % Half)

\* uint32_t a - b (modular).
Sub32(a, b) ==
    LET lo == (a % Half) - (b % Half)
    IN  Word((a \div Half) - (b \div Half) + (lo \div Half), lo % Half)

\* F(a, b) with both operands evaluated before F is entered, as C++ evaluates the
\* operands of an operator before applying it.
ByValue(F(_, _), a, b) == CHOOSE r \in {F(x, y) : x \in {a}, y \in {b}} : TRUE

\* a & b, a ^ b, a | b on words, bit by bit.
And32(a, b) == ByValue(LAMBDA x, y : FromBits([i \in 0..31 |-> Bit(x, i) * Bit(y, i)]), a, b)

Xor32(a, b) ==
    ByValue(LAMBDA x, y : FromBits([i \in 0..31 |-> (Bit(x, i) + Bit(y, i)) % 2]), a, b)

Or32(a, b) ==
    ByValue(LAMBDA x, y : FromBits([i \in 0..31 |-> IF Bit(x, i) + Bit(y, i) > 0 THEN 1 ELSE 0]),
            a, b)

\* a << n on uint32_t or int32_t (C++20: modular), n in 0..31.
Shl32(a, n) ==
    ByValue(LAMBDA x, k : FromBits([i \in 0..31 |-> IF i >= k THEN Bit(x, i - k) ELSE 0]), a, n)

\* a >> n on uint32_t: vacated bits are zero, n in 0..31.
Lsr32(a, n) ==
    ByValue(LAMBDA x, k : FromBits([i \in 0..31 |-> IF i + k <= 31 THEN Bit(x, i + k) ELSE 0]),
            a, n)

\* a >> n on int32_t (C++20: arithmetic, rounding towards minus infinity), n in 0..31.
Asr32(a, n) == IF n = 31 THEN (IF a < 0 THEN -1 ELSE 0) ELSE a \div (2 ^ n)

\* a < b on uint32_t.
ULt(a, b) == IF (a < 0) = (b < 0) THEN a < b ELSE b < 0

\* a % 32 on uint32_t.
UMod32(a) == a % 32

\* a % 32 on int32_t: C++ remainder takes the sign of the dividend.
SRem32(a) == IF a >= 0 THEN a % 32 ELSE -((32 - (a % 32)) % 32)

\* The low 16 and low 8 bits of a word, as naturals.
Lo16(a) == a % Half

Lo8(a) == a % 256

\* Sign extension of an 8-bit and a 16-bit natural (static_cast<int8_t>, <int16_t>).
SExt8(b) == IF b >= 128 THEN b - 256 ELSE b

SExt16(h) == IF h >= 32768 THEN h - Half ELSE h

\* True when the int32_t sum a + b is not representable (signed overflow).
SAddOverflows(a, b) == (a >= 0 /\ b >= 0 /\ Add32(a, b) < 0) \/ (a < 0 /\ b < 0 /\ Add32(a, b) >= 0)

\* std::rotr and std::rotl on a 32-bit value, and std::rotl on a 16-bit value.
Rotr32(a, n) == FromBits([i \in 0..31 |-> Bit(a, (i + n) % 32)])

Rotl32(a, n) == FromBits([i \in 0..31 |-> Bit(a, (i + 32 - n) % 32)])

Rotl16(h, n) == ((h * (2 ^ n)) % Half) + (h \div (2 ^ (16 - n)))

---------------------------------------------------------------------------
(* endian.h: AsLE.  The host's byte order is the build's, held in big.     *)

\* AsLE(uint16_t): the & with 0x00ffu promotes to a 32-bit unsigned, which is what
\* std::rotr then rotates; the result is converted back to uint16_t on return.
AsLE16(halfWord) ==
    IF ~big THEN halfWord
    ELSE Lo16(Or32(Rotr32(And32(halfWord, \h00ff), 8), And32(Rotl16(halfWord, 8), \h00ff)))

\* AsLE(uint32_t).
AsLE32(word) ==
    IF ~big THEN word
    ELSE Or32(Rotr32(And32(word, \h00ff00ff), 8), And32(Rotl32(word, 8), \h00ff00ff))

---------------------------------------------------------------------------
(* memory.h: a Memory is a span of bytes, here a function 0..size-1 -> 0..255. *)
(* An access outside the span is undefined behaviour: a read yields some   *)
(* value u chosen by the caller's environment, a write changes no byte of  *)
(* the span.                                                               *)

MemSize(memory) == Cardinality(DOMAIN memory)

InSpan(memory, addr) == addr >= 0 /\ addr < MemSize(memory)

\* The byte the host finds at memory.data() + addr.
ByteAt(memory, addr, u) == IF InSpan(memory, addr) THEN memory[addr] ELSE Lo8(u)

\* memory with byte b stored at addr, when addr is inside the span.
PutByte(memory, addr, b) == IF InSpan(memory, addr) THEN [memory EXCEPT ![addr] = b] ELSE memory

\* A uint16_t / uint32_t object of the host whose bytes, in address order, are bs.
HostValue16(bs) == IF big THEN bs[1] * 256 + bs[2] ELSE bs[2] * 256 + bs[1]

HostValue32(bs) ==
    IF big THEN Word(bs[1] * 256 + bs[2], bs[3] * 256 + bs[4])
    ELSE Word(bs[4] * 256 + bs[3], bs[2] * 256 + bs[1])

\* The bytes, in address order, of a uint16_t / uint32_t object of the host.
HostBytes16(v) == IF big THEN <<v \div 256, v % 256>> ELSE <<v % 256, v \div 256>>

HostBytes32(v) ==
    LET b0 == v % 256
        b1 == (v \div 256) % 256
        b2 == (v \div Half) % 256
        b3 == (v \div (Half * 256)) % 256
    IN  IF big THEN <<b3, b2, b1, b0>> ELSE <<b0, b1, b2, b3>>

Read8(memory, addr, u) == ByteAt(memory, addr, u)

Read16(memory, addr, u) ==
    AsLE16(HostValue16(<<ByteAt(memory, addr, u), ByteAt(memory, Add32(addr, 1), u)>>))

Read32(memory, addr, u) ==
    AsLE32(HostValue32(<<ByteAt(memory, addr, u), ByteAt(memory, Add32(addr, 1), u),
                         ByteAt(memory, Add32(addr, 2), u), ByteAt(memory, Add32(addr, 3), u)>>))

Write8(memory, addr, byte) == PutByte(memory, addr, byte)

Write16(memory, addr, halfWord) ==
    LET bs == HostBytes16(AsLE16(halfWord))
    IN  PutByte(PutByte(memory, addr, bs[1]), Add32(addr, 1), bs[2])

Write32(memory, addr, word) ==
    LET bs == HostBytes32(AsLE32(word))
    IN  PutByte(PutByte(PutByte(PutByte(memory, addr, bs[1]), Add32(addr, 1), bs[2]),
                        Add32(addr, 2), bs[3]), Add32(addr, 3), bs[4])

---------------------------------------------------------------------------
(* opcodes.h and the field codecs.                                         *)

Opcode ==
    [Illegal |-> 0, Ecall |-> 1, Ebreak |-> 2,
     Add |-> 3, Sub |-> 4, Sll |-> 5, Slt |-> 6, Sltu |-> 7, Xor |-> 8, Srl |-> 9,
     Sra |-> 10, Or |-> 11, And |-> 12,
     Slli |-> 13, Srli |-> 14, Srai |-> 15,
     Beq |-> 16, Bne |-> 17, Blt |-> 18, Bge |-> 19, Bltu |-> 20, Bgeu |-> 21,
     Addi |-> 22, Slti |-> 23, Sltiu |-> 24, Xori |-> 25, Ori |-> 26, Andi |-> 27,
     Lb |-> 28, Lbu |-> 29, Lh |-> 30, Lhu |-> 31, Lw |-> 32,
     Sb |-> 33, Sh |-> 34, Sw |-> 35,
     Fence |-> 36, Jalr |-> 37, Jal |-> 38, Lui |-> 39, Auipc |-> 40,
     J |-> 41, Call |-> 42, Ret |-> 43, Li |-> 44, Mv |-> 45]

\* The masks the codecs use: 0xfff00000 and 0xfffff000.
Mask12 == Word(\hfff0, \h0000)

Mask20 == Word(\hffff, \hf000)

decode_r0(w) == And32(Lsr32(w, 7), \h1f)

decode_r1(w) == And32(Lsr32(w, 12), \h1f)

decode_r2(w) == And32(Lsr32(w, 17), \h1f)

decode_shift(w) == And32(Lsr32(w, 17), \h1f)

decode_imm12(w) == Asr32(And32(w, Mask12), 20)

decode_offs12(w) == Asr32(And32(w, Mask12), 19)

decode_offs20(w) == Asr32(And32(w, Mask20), 11)

decode_uimm20(w) == And32(w, Mask20)

encode_opc(opcode) == opcode

encode_r0(r) == Shl32(And32(r, \h1f), 7)

encode_r1(r) == Shl32(And32(r, \h1f), 12)

encode_r2(r) == Shl32(And32(r, \h1f), 17)

encode_shift(uimm5) == Shl32(And32(uimm5, \h1f), 17)

encode_imm12(imm12) == Shl32(imm12, 20)

\* encode::offs12 as it would be for an offset counted in half words.
encode_offs12HalfWords(offs12) == And32(Shl32(offs12, 20), Mask12)

encode_offs12(offs12) == And32(Shl32(offs12, 19), Mask12)

encode_offs20(offs20) == And32(Shl32(offs20, 11), Mask20)

\* encode::uimm20 as it would be for an operand that is already in the upper 20 bits.
encode_uimm20Masked(uimm20) == And32(uimm20, Mask20)

encode_uimm20(uimm20) == And32(Shl32(uimm20, 12), Mask20)

---------------------------------------------------------------------------
(* dispatch_rv32i.h: DecodeRv32, the RV32I field extraction.               *)

Rd(w) == And32(Lsr32(w, 7), \h1f)

Rs1(w) == And32(Lsr32(w, 15), \h1f)

Rs2(w) == And32(Lsr32(w, 20), \h1f)

Shamtw(w) == And32(Lsr32(w, 20), \h1f)

Bimmediate(w) ==
    LET imm12 == Asr32(And32(w, Word(\h8000, \h0000)), 19)
        imm11 == Shl32(And32(w, \h00000080), 4)
        imm10_5 == Lsr32(And32(w, \h7e000000), 20)
        imm4_1 == Lsr32(And32(w, \h00000f00), 7)
    IN  Or32(Or32(Or32(imm12, imm11), imm10_5), imm4_1)

Iimmediate(w) == Asr32(w, 20)

\* Simmediate as it would be if the upper field were shifted without its sign.
SimmediateUnsigned(w) ==
    LET imm11_5 == Lsr32(And32(w, Word(\hfe00, \h0000)), 20)
        imm4_0 == Lsr32(And32(w, \h00000f80), 7)
    IN  Or32(imm11_5, imm4_0)

Simmediate(w) ==
    LET imm11_5 == Asr32(And32(w, Word(\hfe00, \h0000)), 20)
        imm4_0 == Lsr32(And32(w, \h00000f80), 7)
    IN  Or32(imm11_5, imm4_0)

Jimmediate(w) ==
    LET imm20 == Asr32(And32(w, Word(\h8000, \h0000)), 11)
        imm19_12 == And32(w, \h000ff000)
        imm11 == Lsr32(And32(w, \h00100000), 9)
        imm10_1 == Lsr32(And32(w, \h7fe00000), 20)
    IN  Or32(Or32(Or32(imm20, imm19_12), imm11), imm10_1)

Uimmediate(w) == And32(w, Mask20)

---------------------------------------------------------------------------
(* cpu.h: the executor.  An OwlCpu is a record                             *)
(*   [pc, nextPc, x, done, memory]                                         *)
(* where x is a function 0..31 -> word and memory the byte span lent to    *)
(* the VM (code is the same bytes viewed as host words).  Every handler is *)
(* an operator from the object's state to its state after the call.  A     *)
(* handler whose code can run into undefined behaviour takes the value u   *)
(* that the build produces there.                                          *)

\* Symbolic register names.
zero == 0

ra == 1

sp == 2

t0 == 5

t1 == 6

t2 == 7

a0 == 10

a1 == 11

a7 == 17

\* enum Syscall.
Exit == 0

PrintFib == 1

\* OwlCpu::OwlCpu over an image: everything zero, sp at the end of memory.
\* OwlCpu::OwlCpu as it would be with the stack pointer left at zero.
OwlCpuStackAtZero(image) ==
    [pc |-> 0, nextPc |-> 0, x |-> [r \in 0..31 |-> 0], done |-> FALSE, memory |-> image]

OwlCpu(image) ==
    [pc |-> 0, nextPc |-> 0,
     x |-> [r \in 0..31 |-> IF r = sp THEN MemSize(image) ELSE 0],
     done |-> FALSE, memory |-> image]

Done(c) == c.done

\* code[i]: element i of the span of host words over the same bytes.
CodeAt(c, i, u) ==
    IF i >= 0 /\ i < MemSize(c.memory) \div 4
    THEN HostValue32(<<c.memory[4 * i], c.memory[4 * i + 1], c.memory[4 * i + 2], c.memory[4 * i + 3]>>)
    ELSE u

\* OwlCpu::Fetch: the state after the call, and the word it returns.
FetchCpu(c) == [c EXCEPT !.pc = c.nextPc, !.nextPc = Add32(c.nextPc, 4)]

FetchWord(c, u) == AsLE32(CodeAt(c, Lsr32(c.nextPc, 2), u))

\* Syscall(x[a7]): the enumeration has no fixed underlying type, so its values are 0
\* and 1 and the conversion of any other value is undefined.  The switch then takes no
\* case (u = 0: the build compares the value with each label), the Exit case (u < 0) or
\* the PrintFib case (u > 0).
Syscall(c, u) ==
    IF c.x[a7] \in {Exit, PrintFib} \/ u = 0 THEN c.x[a7] ELSE IF u < 0 THEN Exit ELSE PrintFib

\* ecall as it would be if every system call ended the run.
EcallAlwaysExits(c, u) == [c EXCEPT !.done = TRUE]

\* ecall: the state after the call; what it writes to std::cout is EcallOutput.
Ecall(c, u) == IF Syscall(c, u) = Exit THEN [c EXCEPT !.done = TRUE] ELSE c

EcallOutput(c, u) ==
    IF Syscall(c, u) = Exit THEN <<[call |-> "Exit", a0 |-> c.x[a0], a1 |-> 0]>>
    ELSE IF Syscall(c, u) = PrintFib
         THEN <<[call |-> "PrintFib", a0 |-> c.x[a0], a1 |-> c.x[a1]]>>
    ELSE <<>>

Ebreak(c) == [c EXCEPT !.done = TRUE]

\* add r0, r1, r2 as it would be without the handler's last statement, x[0] = 0.
AddWithoutZeroing(c, r0, r1, r2) ==
    [c EXCEPT !.x = [@ EXCEPT ![r0] = Add32(c.x[r1], c.x[r2])]]

\* add r0, r1, r2
Add(c, r0, r1, r2) ==
    [c EXCEPT !.x = [@ EXCEPT ![r0] = Add32(c.x[r1], c.x[r2]), ![0] = 0]]

\* sub r0, r1, r2
Sub(c, r0, r1, r2) ==
    [c EXCEPT !.x = [@ EXCEPT ![r0] = Sub32(c.x[r1], c.x[r2]), ![0] = 0]]

\* sll r0, r1, r2
Sll(c, r0, r1, r2) ==
    [c EXCEPT !.x = [@ EXCEPT ![r0] = Shl32(c.x[r1], UMod32(c.x[r2])), ![0] = 0]]

\* slt r0, r1, r2
Slt(c, r0, r1, r2) ==
    [c EXCEPT !.x = [@ EXCEPT ![r0] = IF c.x[r1] < c.x[r2] THEN 1 ELSE 0, ![0] = 0]]

\* sltu r0, r1, r2
Sltu(c, r0, r1, r2) ==
    [c EXCEPT !.x = [@ EXCEPT ![r0] = IF ULt(c.x[r1], c.x[r2]) THEN 1 ELSE 0, ![0] = 0]]

\* xor r0, r1, r2
Xor(c, r0, r1, r2) ==
    [c EXCEPT !.x = [@ EXCEPT ![r0] = Xor32(c.x[r1], c.x[r2]), ![0] = 0]]

\* srl r0, r1, r2 as it would be with x[r1] shifted as an int32_t.
SrlArithmetic(c, r0, r1, r2) ==
    [c EXCEPT !.x = [@ EXCEPT ![r0] = Asr32(c.x[r1], UMod32(c.x[r2])), ![0] = 0]]

\* srl r0, r1, r2
Srl(c, r0, r1, r2) ==
    [c EXCEPT !.x = [@ EXCEPT ![r0] = Lsr32(c.x[r1], UMod32(c.x[r2])), ![0] = 0]]

\* sra r0, r1, r2: the count is int32_t(x[r2]) % 32, which is negative for a negative
\* x[r2] not a multiple of 32; a shift by a negative count is undefined.  The outcome is
\* then what a shift instruction that looks at the low five bits of the count gives,
\* with the bits of u flipped (u = 0: the build emits just that instruction).
Sra(c, r0, r1, r2, u) ==
    LET sr1 == c.x[r1]
        shift == SRem32(c.x[r2])
        shifted == IF shift >= 0 THEN Asr32(sr1, shift) ELSE Xor32(Asr32(sr1, shift % 32), u)
    IN  [c EXCEPT !.x = [@ EXCEPT ![r0] = shifted, ![0] = 0]]

\* or r0, r1, r2
Or(c, r0, r1, r2) ==
    [c EXCEPT !.x = [@ EXCEPT ![r0] = Or32(c.x[r1], c.x[r2]), ![0] = 0]]

\* and r0, r1, r2
And(c, r0, r1, r2) ==
    [c EXCEPT !.x = [@ EXCEPT ![r0] = And32(c.x[r1], c.x[r2]), ![0] = 0]]

\* slli r0, r1, shift
Slli(c, r0, r1, shift) ==
    [c EXCEPT !.x = [@ EXCEPT ![r0] = Shl32(c.x[r1], shift), ![0] = 0]]

\* srli r0, r1, shift: the code shifts static_cast<int32_t>(x[r1])
Srli(c, r0, r1, shift) ==
    [c EXCEPT !.x = [@ EXCEPT ![r0] = Asr32(c.x[r1], shift), ![0] = 0]]

\* srai r0, r1, shift: the code shifts the uint32_t x[r1]
Srai(c, r0, r1, shift) ==
    [c EXCEPT !.x = [@ EXCEPT ![r0] = Lsr32(c.x[r1], shift), ![0] = 0]]

\* beq r0, r1, offs12
Beq(c, r0, r1, offs12) ==
    IF c.x[r0] = c.x[r1] THEN [c EXCEPT !.nextPc = Add32(c.pc, offs12)] ELSE c

\* bne r0, r1, offs12
Bne(c, r0, r1, offs12) ==
    IF c.x[r0] # c.x[r1] THEN [c EXCEPT !.nextPc = Add32(c.pc, offs12)] ELSE c

\* blt r0, r1, offs12
Blt(c, r0, r1, offs12) ==
    IF c.x[r0] < c.x[r1] THEN [c EXCEPT !.nextPc = Add32(c.pc, offs12)] ELSE c

\* bge r0, r1, offs12
Bge(c, r0, r1, offs12) ==
    IF c.x[r0] >= c.x[r1] THEN [c EXCEPT !.nextPc = Add32(c.pc, offs12)] ELSE c

\* bltu r0, r1, offs12 as it would be with the comparison made on int32_t values.
BltuSigned(c, r0, r1, offs12) ==
    IF c.x[r0] < c.x[r1] THEN [c EXCEPT !.nextPc = Add32(c.pc, offs12)] ELSE c

\* bltu r0, r1, offs12
Bltu(c, r0, r1, offs12) ==
    IF ULt(c.x[r0], c.x[r1]) THEN [c EXCEPT !.nextPc = Add32(c.pc, offs12)] ELSE c

\* bgeu r0, r1, offs12
Bgeu(c, r0, r1, offs12) ==
    IF ~ULt(c.x[r0], c.x[r1]) THEN [c EXCEPT !.nextPc = Add32(c.pc, offs12)] ELSE c

\* addi r0, r1, imm12
Addi(c, r0, r1, imm12) ==
    [c EXCEPT !.x = [@ EXCEPT ![r0] = Add32(c.x[r1], imm12), ![0] = 0]]

\* slti r0, r1, imm12: the code compares with x[imm12]; for imm12 outside 0..31 that
\* read is outside the register array and undefined.
Slti(c, r0, r1, imm12, u) ==
    LET sr1 == c.x[r1]
        simm12 == IF imm12 \in 0..31 THEN c.x[imm12] ELSE u
    IN  [c EXCEPT !.x = [@ EXCEPT ![r0] = IF sr1 < simm12 THEN 1 ELSE 0, ![0] = 0]]

\* sltiu r0, r1, imm12
Sltiu(c, r0, r1, imm12) ==
    [c EXCEPT !.x = [@ EXCEPT ![r0] = IF ULt(c.x[r1], imm12) THEN 1 ELSE 0, ![0] = 0]]

\* xori r0, r1, imm12
Xori(c, r0, r1, imm12) ==
    [c EXCEPT !.x = [@ EXCEPT ![r0] = Xor32(c.x[r1], imm12), ![0] = 0]]

\* ori r0, r1, imm12
Ori(c, r0, r1, imm12) ==
    [c EXCEPT !.x = [@ EXCEPT ![r0] = Or32(c.x[r1], imm12), ![0] = 0]]

\* andi r0, r1, imm12
Andi(c, r0, r1, imm12) ==
    [c EXCEPT !.x = [@ EXCEPT ![r0] = And32(c.x[r1], imm12), ![0] = 0]]

\* lb r0, imm12(r1)
Lb(c, r0, imm12, r1, u) ==
    [c EXCEPT !.x = [@ EXCEPT ![r0] = SExt8(Read8(c.memory, Add32(c.x[r1], imm12), u)), ![0] = 0]]

\* lbu r0, imm12(r1)
Lbu(c, r0, imm12, r1, u) ==
    [c EXCEPT !.x = [@ EXCEPT ![r0] = Read8(c.memory, Add32(c.x[r1], imm12), u), ![0] = 0]]

\* lh r0, imm12(r1)
Lh(c, r0, imm12, r1, u) ==
    [c EXCEPT !.x = [@ EXCEPT ![r0] = SExt16(Read16(c.memory, Add32(c.x[r1], imm12), u)), ![0] = 0]]

\* lhu r0, imm12(r1)
Lhu(c, r0, imm12, r1, u) ==
    [c EXCEPT !.x = [@ EXCEPT ![r0] = Read16(c.memory, Add32(c.x[r1], imm12), u), ![0] = 0]]

\* lw r0, imm12(r1)
Lw(c, r0, imm12, r1, u) ==
    [c EXCEPT !.x = [@ EXCEPT ![r0] = Read32(c.memory, Add32(c.x[r1], imm12), u), ![0] = 0]]

\* sb r0, imm12(r1)
Sb(c, r0, imm12, r1) ==
    [c EXCEPT !.memory = Write8(c.memory, Add32(c.x[r1], imm12), Lo8(c.x[r0]))]

\* sh r0, imm12(r1)
Sh(c, r0, imm12, r1) ==
    [c EXCEPT !.memory = Write16(c.memory, Add32(c.x[r1], imm12), Lo16(c.x[r0]))]

\* sw r0, imm12(r1)
Sw(c, r0, imm12, r1) ==
    [c EXCEPT !.memory = Write32(c.memory, Add32(c.x[r1], imm12), c.x[r0])]

Fence(c) == c

\* jalr r0, offs12(r1): r1Before is an int32_t, so r1Before + offs12 is a signed
\* addition, undefined when it overflows.  The outcome is then the wrapped sum with the
\* bits of u flipped (u = 0: the build emits a plain add).
Jalr(c, r0, offs12, r1, u) ==
    LET r1Before == c.x[r1]
        sum == Add32(r1Before, offs12)
        target == IF SAddOverflows(r1Before, offs12) THEN Xor32(sum, u) ELSE sum
    IN  [c EXCEPT !.x = [@ EXCEPT ![r0] = c.nextPc, ![0] = 0], !.nextPc = target]

\* jal r0, offs20
Jal(c, r0, offs20) ==
    [c EXCEPT !.x = [@ EXCEPT ![r0] = c.nextPc, ![0] = 0], !.nextPc = Add32(c.pc, offs20)]

\* lui r0, uimm20
Lui(c, r0, uimm20) ==
    [c EXCEPT !.x = [@ EXCEPT ![r0] = uimm20, ![0] = 0]]

\* auipc r0, uimm20 as it would be if it added to the address of the next instruction.
AuipcFromNextPc(c, r0, uimm20) ==
    [c EXCEPT !.x = [@ EXCEPT ![r0] = Add32(c.nextPc, uimm20), ![0] = 0]]

\* auipc r0, uimm20
Auipc(c, r0, uimm20) ==
    [c EXCEPT !.x = [@ EXCEPT ![r0] = Add32(c.pc, uimm20), ![0] = 0]]

\* j offs20
J(c, offs20) == [c EXCEPT !.nextPc = Add32(c.pc, offs20)]

\* call offs20 as it would be if it linked to the call's own address.
CallLinkingPc(c, offs20) == [c EXCEPT !.x = [@ EXCEPT ![ra] = c.pc], !.nextPc = Add32(c.pc, offs20)]

\* call offs20 as it would be if it also reserved a word on the stack.
CallPushing(c, offs20) ==
    [c EXCEPT !.x = [@ EXCEPT ![ra] = c.nextPc, ![sp] = Sub32(c.x[sp], 4)],
              !.nextPc = Add32(c.pc, offs20)]

\* call offs20
Call(c, offs20) == [c EXCEPT !.x = [@ EXCEPT ![ra] = c.nextPc], !.nextPc = Add32(c.pc, offs20)]

\* ret
Ret(c) == [c EXCEPT !.nextPc = c.x[ra]]

\* li r0, imm12
Li(c, r0, imm12) ==
    [c EXCEPT !.x = [@ EXCEPT ![r0] = imm12, ![0] = 0]]

\* mv r0, r1
Mv(c, r0, r1) ==
    [c EXCEPT !.x = [@ EXCEPT ![r0] = c.x[r1], ![0] = 0]]

\* An Illegal that lets the run go on.
IllegalContinues(c, w) == c

Illegal(c, w) == [c EXCEPT !.done = TRUE]

---------------------------------------------------------------------------
(* dispatch_owl.h: DispatchOwl.                                            *)

DispatchOwl(c, w, u) ==
    LET opcode == And32(w, \h7f)
    IN  CASE opcode = Opcode.Ecall -> Ecall(c, u)
          [] opcode = Opcode.Ebreak -> Ebreak(c)
          [] opcode = Opcode.Add -> Add(c, decode_r0(w), decode_r1(w), decode_r2(w))
          [] opcode = Opcode.Sub -> Sub(c, decode_r0(w), decode_r1(w), decode_r2(w))
          [] opcode = Opcode.Sll -> Sll(c, decode_r0(w), decode_r1(w), decode_r2(w))
          [] opcode = Opcode.Slt -> Slt(c, decode_r0(w), decode_r1(w), decode_r2(w))
          [] opcode = Opcode.Sltu -> Sltu(c, decode_r0(w), decode_r1(w), decode_r2(w))
          [] opcode = Opcode.Xor -> Xor(c, decode_r0(w), decode_r1(w), decode_r2(w))
          [] opcode = Opcode.Srl -> Srl(c, decode_r0(w), decode_r1(w), decode_r2(w))
          [] opcode = Opcode.Sra -> Sra(c, decode_r0(w), decode_r1(w), decode_r2(w), u)
          [] opcode = Opcode.Or -> Or(c, decode_r0(w), decode_r1(w), decode_r2(w))
          [] opcode = Opcode.And -> And(c, decode_r0(w), decode_r1(w), decode_r2(w))
          [] opcode = Opcode.Slli -> Slli(c, decode_r0(w), decode_r1(w), decode_shift(w))
          [] opcode = Opcode.Srli -> Srli(c, decode_r0(w), decode_r1(w), decode_shift(w))
          [] opcode = Opcode.Srai -> Srai(c, decode_r0(w), decode_r1(w), decode_shift(w))
          [] opcode = Opcode.Beq -> Beq(c, decode_r0(w), decode_r1(w), decode_offs12(w))
          [] opcode = Opcode.Bne -> Bne(c, decode_r0(w), decode_r1(w), decode_offs12(w))
          [] opcode = Opcode.Blt -> Blt(c, decode_r0(w), decode_r1(w), decode_offs12(w))
          [] opcode = Opcode.Bge -> Bge(c, decode_r0(w), decode_r1(w), decode_offs12(w))
          [] opcode = Opcode.Bltu -> Bltu(c, decode_r0(w), decode_r1(w), decode_offs12(w))
          [] opcode = Opcode.Bgeu -> Bgeu(c, decode_r0(w), decode_r1(w), decode_offs12(w))
          [] opcode = Opcode.Addi -> Addi(c, decode_r0(w), decode_r1(w), decode_imm12(w))
          [] opcode = Opcode.Slti -> Slti(c, decode_r0(w), decode_r1(w), decode_imm12(w), u)
          [] opcode = Opcode.Sltiu -> Sltiu(c, decode_r0(w), decode_r1(w), decode_imm12(w))
          [] opcode = Opcode.Xori -> Xori(c, decode_r0(w), decode_r1(w), decode_imm12(w))
          [] opcode = Opcode.Ori -> Ori(c, decode_r0(w), decode_r1(w), decode_imm12(w))
          [] opcode = Opcode.Andi -> Andi(c, decode_r0(w), decode_r1(w), decode_imm12(w))
          [] opcode = Opcode.Lb -> Lb(c, decode_r0(w), decode_imm12(w), decode_r1(w), u)
          [] opcode = Opcode.Lbu -> Lbu(c, decode_r0(w), decode_imm12(w), decode_r1(w), u)
          [] opcode = Opcode.Lh -> Lh(c, decode_r0(w), decode_imm12(w), decode_r1(w), u)
          [] opcode = Opcode.Lhu -> Lhu(c, decode_r0(w), decode_imm12(w), decode_r1(w), u)
          [] opcode = Opcode.Lw -> Lw(c, decode_r0(w), decode_imm12(w), decode_r1(w), u)
          [] opcode = Opcode.Sb -> Sb(c, decode_r0(w), decode_imm12(w), decode_r1(w))
          [] opcode = Opcode.Sh -> Sh(c, decode_r0(w), decode_imm12(w), decode_r1(w))
          [] opcode = Opcode.Sw -> Sw(c, decode_r0(w), decode_imm12(w), decode_r1(w))
          [] opcode = Opcode.Fence -> Fence(c)
          [] opcode = Opcode.Jalr -> Jalr(c, decode_r0(w), decode_offs12(w), decode_r1(w), u)
          [] opcode = Opcode.Jal -> Jal(c, decode_r0(w), decode_offs20(w))
          [] opcode = Opcode.Lui -> Lui(c, decode_r0(w), decode_uimm20(w))
          [] opcode = Opcode.Auipc -> Auipc(c, decode_r0(w), decode_uimm20(w))
          [] opcode = Opcode.J -> J(c, decode_offs20(w))
          [] opcode = Opcode.Call -> Call(c, decode_offs20(w))
          [] opcode = Opcode.Ret -> Ret(c)
          [] opcode = Opcode.Li -> Li(c, decode_r0(w), decode_imm12(w))
          [] opcode = Opcode.Mv -> Mv(c, decode_r0(w), decode_r1(w))
          [] OTHER -> Illegal(c, w)

\* DispatchOwl with a handler that returns the call made to it: the name of the method
\* and its arguments in their order.
OwlCall(w) ==
    LET opcode == And32(w, \h7f)
    IN  CASE opcode = Opcode.Ecall -> <<"Ecall">>
          [] opcode = Opcode.Ebreak -> <<"Ebreak">>
          [] opcode = Opcode.Add -> <<"Add", decode_r0(w), decode_r1(w), decode_r2(w)>>
          [] opcode = Opcode.Sub -> <<"Sub", decode_r0(w), decode_r1(w), decode_r2(w)>>
          [] opcode = Opcode.Sll -> <<"Sll", decode_r0(w), decode_r1(w), decode_r2(w)>>
          [] opcode = Opcode.Slt -> <<"Slt", decode_r0(w), decode_r1(w), decode_r2(w)>>
          [] opcode = Opcode.Sltu -> <<"Sltu", decode_r0(w), decode_r1(w), decode_r2(w)>>
          [] opcode = Opcode.Xor -> <<"Xor", decode_r0(w), decode_r1(w), decode_r2(w)>>
          [] opcode = Opcode.Srl -> <<"Srl", decode_r0(w), decode_r1(w), decode_r2(w)>>
          [] opcode = Opcode.Sra -> <<"Sra", decode_r0(w), decode_r1(w), decode_r2(w)>>
          [] opcode = Opcode.Or -> <<"Or", decode_r0(w), decode_r1(w), decode_r2(w)>>
          [] opcode = Opcode.And -> <<"And", decode_r0(w), decode_r1(w), decode_r2(w)>>
          [] opcode = Opcode.Slli -> <<"Slli", decode_r0(w), decode_r1(w), decode_shift(w)>>
          [] opcode = Opcode.Srli -> <<"Srli", decode_r0(w), decode_r1(w), decode_shift(w)>>
          [] opcode = Opcode.Srai -> <<"Srai", decode_r0(w), decode_r1(w), decode_shift(w)>>
          [] opcode = Opcode.Beq -> <<"Beq", decode_r0(w), decode_r1(w), decode_offs12(w)>>
          [] opcode = Opcode.Bne -> <<"Bne", decode_r0(w), decode_r1(w), decode_offs12(w)>>
          [] opcode = Opcode.Blt -> <<"Blt", decode_r0(w), decode_r1(w), decode_offs12(w)>>
          [] opcode = Opcode.Bge -> <<"Bge", decode_r0(w), decode_r1(w), decode_offs12(w)>>
          [] opcode = Opcode.Bltu -> <<"Bltu", decode_r0(w), decode_r1(w), decode_offs12(w)>>
          [] opcode = Opcode.Bgeu -> <<"Bgeu", decode_r0(w), decode_r1(w), decode_offs12(w)>>
          [] opcode = Opcode.Addi -> <<"Addi", decode_r0(w), decode_r1(w), decode_imm12(w)>>
          [] opcode = Opcode.Slti -> <<"Slti", decode_r0(w), decode_r1(w), decode_imm12(w)>>
          [] opcode = Opcode.Sltiu -> <<"Sltiu", decode_r0(w), decode_r1(w), decode_imm12(w)>>
          [] opcode = Opcode.Xori -> <<"Xori", decode_r0(w), decode_r1(w), decode_imm12(w)>>
          [] opcode = Opcode.Ori -> <<"Ori", decode_r0(w), decode_r1(w), decode_imm12(w)>>
          [] opcode = Opcode.Andi -> <<"Andi", decode_r0(w), decode_r1(w), decode_imm12(w)>>
          [] opcode = Opcode.Lb -> <<"Lb", decode_r0(w), decode_imm12(w), decode_r1(w)>>
          [] opcode = Opcode.Lbu -> <<"Lbu", decode_r0(w), decode_imm12(w), decode_r1(w)>>
          [] opcode = Opcode.Lh -> <<"Lh", decode_r0(w), decode_imm12(w), decode_r1(w)>>
          [] opcode = Opcode.Lhu -> <<"Lhu", decode_r0(w), decode_imm12(w), decode_r1(w)>>
          [] opcode = Opcode.Lw -> <<"Lw", decode_r0(w), decode_imm12(w), decode_r1(w)>>
          [] opcode = Opcode.Sb -> <<"Sb", decode_r0(w), decode_imm12(w), decode_r1(w)>>
          [] opcode = Opcode.Sh -> <<"Sh", decode_r0(w), decode_imm12(w), decode_r1(w)>>
          [] opcode = Opcode.Sw -> <<"Sw", decode_r0(w), decode_imm12(w), decode_r1(w)>>
          [] opcode = Opcode.Fence -> <<"Fence">>
          [] opcode = Opcode.Jalr -> <<"Jalr", decode_r0(w), decode_offs12(w), decode_r1(w)>>
          [] opcode = Opcode.Jal -> <<"Jal", decode_r0(w), decode_offs20(w)>>
          [] opcode = Opcode.Lui -> <<"Lui", decode_r0(w), decode_uimm20(w)>>
          [] opcode = Opcode.Auipc -> <<"Auipc", decode_r0(w), decode_uimm20(w)>>
          [] opcode = Opcode.J -> <<"J", decode_offs20(w)>>
          [] opcode = Opcode.Call -> <<"Call", decode_offs20(w)>>
          [] opcode = Opcode.Ret -> <<"Ret">>
          [] opcode = Opcode.Li -> <<"Li", decode_r0(w), decode_imm12(w)>>
          [] opcode = Opcode.Mv -> <<"Mv", decode_r0(w), decode_r1(w)>>
          [] OTHER -> <<"Illegal", w>>

\* What the dispatched handler writes to std::cout (only Ecall writes).
OwlOutput(c, w, u) == IF And32(w, \h7f) = Opcode.Ecall THEN EcallOutput(c, u) ELSE <<>>

---------------------------------------------------------------------------
(* dispatch_rv32i.h: DispatchRv32i.  The four switches in their order; a   *)
(* switch that matches no case falls through to the next one.              *)

\* The second switch's mask as it would be without the funct7 bits.
MaskRNoFunct7 == Word(\h0000, \h707f)

\* The masks of the second, third and fourth switch.
MaskR == Word(\hfe00, \h707f)

MaskI == \h0000707f

MaskOp == \h0000007f

DispatchRv32i(c, code, u) ==
    LET k2 == And32(code, MaskR)
        k3 == And32(code, MaskI)
        k4 == And32(code, MaskOp)
    IN  CASE code = \h00000073 -> Ecall(c, u)
          [] code = \h00100073 -> Ebreak(c)
          [] k2 = \h00000033 -> Add(c, Rd(code), Rs1(code), Rs2(code))
          [] k2 = \h40000033 -> Sub(c, Rd(code), Rs1(code), Rs2(code))
          [] k2 = \h00001033 -> Sll(c, Rd(code), Rs1(code), Rs2(code))
          [] k2 = \h00002033 -> Slt(c, Rd(code), Rs1(code), Rs2(code))
          [] k2 = \h00003033 -> Sltu(c, Rd(code), Rs1(code), Rs2(code))
          [] k2 = \h00004033 -> Xor(c, Rd(code), Rs1(code), Rs2(code))
          [] k2 = \h00005033 -> Srl(c, Rd(code), Rs1(code), Rs2(code))
          [] k2 = \h40005033 -> Sra(c, Rd(code), Rs1(code), Rs2(code), u)
          [] k2 = \h00006033 -> Or(c, Rd(code), Rs1(code), Rs2(code))
          [] k2 = \h00007033 -> And(c, Rd(code), Rs1(code), Rs2(code))
          [] k2 = \h00001013 -> Slli(c, Rd(code), Rs1(code), Shamtw(code))
          [] k2 = \h00005013 -> Srli(c, Rd(code), Rs1(code), Shamtw(code))
          [] k2 = \h40005013 -> Srai(c, Rd(code), Rs1(code), Shamtw(code))
          [] k3 = \h00000063 -> Beq(c, Rs1(code), Rs2(code), Bimmediate(code))
          [] k3 = \h00001063 -> Bne(c, Rs1(code), Rs2(code), Bimmediate(code))
          [] k3 = \h00004063 -> Blt(c, Rs1(code), Rs2(code), Bimmediate(code))
          [] k3 = \h00005063 -> Bge(c, Rs1(code), Rs2(code), Bimmediate(code))
          [] k3 = \h00006063 -> Bltu(c, Rs1(code), Rs2(code), Bimmediate(code))
          [] k3 = \h00007063 -> Bgeu(c, Rs1(code), Rs2(code), Bimmediate(code))
          [] k3 = \h00000067 -> Jalr(c, Rd(code), Iimmediate(code), Rs1(code), u)
          [] k3 = \h00000013 -> Addi(c, Rd(code), Rs1(code), Iimmediate(code))
          [] k3 = \h00002013 -> Slti(c, Rd(code), Rs1(code), Iimmediate(code), u)
          [] k3 = \h00003013 -> Sltiu(c, Rd(code), Rs1(code), Iimmediate(code))
          [] k3 = \h00004013 -> Xori(c, Rd(code), Rs1(code), Iimmediate(code))
          [] k3 = \h00006013 -> Ori(c, Rd(code), Rs1(code), Iimmediate(code))
          [] k3 = \h00007013 -> Andi(c, Rd(code), Rs1(code), Iimmediate(code))
          [] k3 = \h00000003 -> Lb(c, Rd(code), Iimmediate(code), Rs1(code), u)
          [] k3 = \h00001003 -> Lh(c, Rd(code), Iimmediate(code), Rs1(code), u)
          [] k3 = \h00002003 -> Lw(c, Rd(code), Iimmediate(code), Rs1(code), u)
          [] k3 = \h00004003 -> Lbu(c, Rd(code), Iimmediate(code), Rs1(code), u)
          [] k3 = \h00005003 -> Lhu(c, Rd(code), Iimmediate(code), Rs1(code), u)
          [] k3 = \h00000023 -> Sb(c, Rs1(code), Simmediate(code), Rs2(code))
          [] k3 = \h00001023 -> Sh(c, Rs1(code), Simmediate(code), Rs2(code))
          [] k3 = \h00002023 -> Sw(c, Rs1(code), Simmediate(code), Rs2(code))
          [] k3 = \h0000000f -> Fence(c)
          [] k4 = \h0000006f -> Jal(c, Rd(code), Jimmediate(code))
          [] k4 = \h00000037 -> Lui(c, Rd(code), Uimmediate(code))
          [] k4 = \h00000017 -> Auipc(c, Rd(code), Uimmediate(code))
          [] OTHER -> Illegal(c, code)

\* The visitor method DispatchRv32i invokes for a word: the same switches, naming the
\* method in place of calling it.
Rv32iCall(code) ==
    LET k2 == And32(code, MaskR)
        k3 == And32(code, MaskI)
        k4 == And32(code, MaskOp)
    IN  CASE code = \h00000073 -> "Ecall"
          [] code = \h00100073 -> "Ebreak"
          [] k2 = \h00000033 -> "Add"
          [] k2 = \h40000033 -> "Sub"
          [] k2 = \h00001033 -> "Sll"
          [] k2 = \h00002033 -> "Slt"
          [] k2 = \h00003033 -> "Sltu"
          [] k2 = \h00004033 -> "Xor"
          [] k2 = \h00005033 -> "Srl"
          [] k2 = \h40005033 -> "Sra"
          [] k2 = \h00006033 -> "Or"
          [] k2 = \h00007033 -> "And"
          [] k2 = \h00001013 -> "Slli"
          [] k2 = \h00005013 -> "Srli"
          [] k2 = \h40005013 -> "Srai"
          [] k3 = \h00000063 -> "Beq"
          [] k3 = \h00001063 -> "Bne"
          [] k3 = \h00004063 -> "Blt"
          [] k3 = \h00005063 -> "Bge"
          [] k3 = \h00006063 -> "Bltu"
          [] k3 = \h00007063 -> "Bgeu"
          [] k3 = \h00000067 -> "Jalr"
          [] k3 = \h00000013 -> "Addi"
          [] k3 = \h00002013 -> "Slti"
          [] k3 = \h00003013 -> "Sltiu"
          [] k3 = \h00004013 -> "Xori"
          [] k3 = \h00006013 -> "Ori"
          [] k3 = \h00007013 -> "Andi"
          [] k3 = \h00000003 -> "Lb"
          [] k3 = \h00001003 -> "Lh"
          [] k3 = \h00002003 -> "Lw"
          [] k3 = \h00004003 -> "Lbu"
          [] k3 = \h00005003 -> "Lhu"
          [] k3 = \h00000023 -> "Sb"
          [] k3 = \h00001023 -> "Sh"
          [] k3 = \h00002023 -> "Sw"
          [] k3 = \h0000000f -> "Fence"
          [] k4 = \h0000006f -> "Jal"
          [] k4 = \h00000037 -> "Lui"
          [] k4 = \h00000017 -> "Auipc"
          [] OTHER -> "Illegal"

Rv32iOutput(c, code, u) == IF code = \h00000073 THEN EcallOutput(c, u) ELSE <<>>

---------------------------------------------------------------------------
(* assembler.h: the Assembler's emitters.  An Assembler is a record        *)
(*   [code_, current_, labels_, fixups_]                                   *)
(* code_ a sequence of host words, labels_ a sequence of addresses,        *)
(* fixups_ the multimap as a sequence of [id, target, type] in key order.  *)
(* Methods that differ only in their opcode are one operator taking the    *)
(* opcode: AsmRegReg is Add .. And, AsmShift is Slli .. Srai, AsmRegImm is *)
(* Addi .. Andi, AsmLoad is Lb .. Lw, AsmStore is Sb .. Sw; Branch and     *)
(* Jump are the source's own templates.                                    *)

NewAssembler == [code_ |-> <<>>, current_ |-> 0, labels_ |-> <<>>, fixups_ |-> <<>>]

Current(a) == a.current_

Emit(a, u) == [a EXCEPT !.code_ = Append(@, AsLE32(u)), !.current_ = Add32(@, 4)]

AsmEcall(a) == Emit(a, encode_opc(Opcode.Ecall))

AsmEbreak(a) == Emit(a, encode_opc(Opcode.Ebreak))

AsmRegReg(a, opcode, r0, r1, r2) ==
    Emit(a, Or32(Or32(Or32(encode_opc(opcode), encode_r0(r0)), encode_r1(r1)), encode_r2(r2)))

AsmShift(a, opcode, r0, r1, shift) ==
    Emit(a, Or32(Or32(Or32(encode_opc(opcode), encode_r0(r0)), encode_r1(r1)), encode_shift(shift)))

Branch(a, opcode, r0, r1, offs12) ==
    Emit(a, Or32(Or32(Or32(encode_opc(opcode), encode_r0(r0)), encode_r1(r1)), encode_offs12(offs12)))

AsmRegImm(a, opcode, r0, r1, imm12) ==
    Emit(a, Or32(Or32(Or32(encode_opc(opcode), encode_r0(r0)), encode_r1(r1)), encode_imm12(imm12)))

AsmLoad(a, opcode, r0, imm12, r1) ==
    Emit(a, Or32(Or32(Or32(encode_opc(opcode), encode_r0(r0)), encode_imm12(imm12)), encode_r1(r1)))

AsmStore(a, opcode, r0, imm12, r1) ==
    Emit(a, Or32(Or32(Or32(encode_opc(opcode), encode_r0(r0)), encode_imm12(imm12)), encode_r1(r1)))

AsmFence(a) == Emit(a, encode_opc(Opcode.Fence))

AsmJalr(a, r0, offs12, r1) ==
    Emit(a, Or32(Or32(Or32(encode_opc(Opcode.Jalr), encode_offs12(offs12)), encode_r1(r1)), encode_r0(r0)))

AsmJal(a, r0, offs20) ==
    Emit(a, Or32(Or32(encode_opc(Opcode.Jal), encode_offs20(offs20)), encode_r0(r0)))

AsmLui(a, r0, uimm20) ==
    Emit(a, Or32(Or32(encode_opc(Opcode.Lui), encode_r0(r0)), encode_uimm20(uimm20)))

AsmAuipc(a, r0, uimm20) ==
    Emit(a, Or32(Or32(encode_opc(Opcode.Auipc), encode_r0(r0)), encode_uimm20(uimm20)))

Jump(a, opcode, offs20) == Emit(a, Or32(encode_opc(opcode), encode_offs20(offs20)))

AsmRet(a) == Emit(a, encode_opc(Opcode.Ret))

AsmLi(a, r0, imm12) ==
    Emit(a, Or32(Or32(encode_opc(Opcode.Li), encode_r0(r0)), encode_imm12(imm12)))

AsmMv(a, r0, r1) ==
    Emit(a, Or32(Or32(encode_opc(Opcode.Mv), encode_r0(r0)), encode_r1(r1)))

AsmIllegal(a, w) == Emit(a, encode_opc(Opcode.Illegal))

\* The labels.  A Label is its id, labels_[id] is element id + 1 of the sequence, and
\* a Fixup is a record [id, target, type] with type one of "offs12", "offs20", "hi20"
\* and "lo12".
badAddress == -1

\* Assembler::AddressOf: labels_[id]; the optional is empty when that is badAddress.
AddressOf(a, label) == a.labels_[label + 1]

\* ResolveFixup<type>(addr, offset): the word is taken from code_ and put back there
\* as the host holds it.
ResolveFixup(a, type, addr, offset) ==
    LET existing == a.code_[(addr \div 4) + 1]
        fixed ==
            CASE type = "offs12" -> Or32(And32(existing, \h000fffff), encode_offs12(offset))
              [] type = "offs20" -> Or32(And32(existing, \h00000fff), encode_offs20(offset))
              [] type = "hi20" -> Or32(And32(existing, \h00000fff), offset)
              [] type = "lo12" -> Or32(And32(existing, \h000fffff), encode_imm12(offset))
    IN  [a EXCEPT !.code_ = [@ EXCEPT ![(addr \div 4) + 1] = fixed]]

\* AddFixup<type>(label): std::multimap::emplace puts the entry after the entries
\* whose key is not greater.
AddFixup(a, type, label) ==
    LET fixup == [id |-> label, target |-> Current(a), type |-> type]
    IN  [a EXCEPT !.fixups_ = SelectSeq(@, LAMBDA f : f.id <= label) \o <<fixup>>
                              \o SelectSeq(@, LAMBDA f : f.id > label)]

\* The loop of BindLabel over the fixups of one id.
RECURSIVE ResolveAll(_, _, _)
ResolveAll(a, address, fixups) ==
    IF fixups = <<>> THEN a
    ELSE LET fixup == Head(fixups)
             resolved ==
                CASE fixup.type = "offs12" ->
                        ResolveFixup(a, "offs12", fixup.target, Sub32(address, fixup.target))
                  [] fixup.type = "offs20" ->
                        ResolveFixup(a, "offs20", fixup.target, Sub32(address, fixup.target))
                  [] fixup.type = "hi20" ->
                        ResolveFixup(a, "hi20", fixup.target, And32(address, Mask20))
                  [] fixup.type = "lo12" ->
                        ResolveFixup(a, "lo12", fixup.target, And32(address, \h00000fff))
         IN  ResolveAll(resolved, address, Tail(fixups))

\* BindLabel as it would be if it dropped every pending fixup.
BindLabelErasingAll(a, label) ==
    LET address == Current(a)
        bound == [a EXCEPT !.labels_ = [@ EXCEPT ![label + 1] = address]]
        resolved == ResolveAll(bound, address, SelectSeq(a.fixups_, LAMBDA f : f.id = label))
    IN  [resolved EXCEPT !.fixups_ = <<>>]

BindLabel(a, label) ==
    LET address == Current(a)
        bound == [a EXCEPT !.labels_ = [@ EXCEPT ![label + 1] = address]]
        resolved == ResolveAll(bound, address, SelectSeq(a.fixups_, LAMBDA f : f.id = label))
    IN  [resolved EXCEPT !.fixups_ = SelectSeq(@, LAMBDA f : f.id # label)]

\* MakeLabel: the assembler after the call; the Label returned has id labels_.size().
MakeLabel(a) == [a EXCEPT !.labels_ = Append(@, badAddress)]

\* Code() as it would be without the test of fixups_.
CodeUnchecked(a) == [threw |-> FALSE, value |-> a.code_]

\* Code(): the vector returned, or the exception thrown.
Code(a) ==
    IF a.fixups_ = <<>> THEN [threw |-> FALSE, value |-> a.code_]
    ELSE [threw |-> TRUE, what |-> "There are unbound labels."]

\* Branch<opcode>(r0, r1, label) with the offset taken from the branch to the label's
\* address the wrong way round.
BranchLabelReversed(a, opcode, r0, r1, label) ==
    IF AddressOf(a, label) # badAddress
    THEN Branch(a, opcode, r0, r1, Sub32(Current(a), AddressOf(a, label)))
    ELSE Branch(AddFixup(a, "offs12", label), opcode, r0, r1, 0)

\* Branch<opcode>(r0, r1, label).
BranchLabel(a, opcode, r0, r1, label) ==
    IF AddressOf(a, label) # badAddress
    THEN Branch(a, opcode, r0, r1, Sub32(AddressOf(a, label), Current(a)))
    ELSE Branch(AddFixup(a, "offs12", label), opcode, r0, r1, 0)

\* Jump<opcode>(label).
JumpLabel(a, opcode, label) ==
    IF AddressOf(a, label) # badAddress
    THEN Jump(a, opcode, Sub32(AddressOf(a, label), Current(a)))
    ELSE Jump(AddFixup(a, "offs20", label), opcode, 0)

\* Hi(label) and Lo(label): the value returned, and the assembler after the call.
HiValue(a, label) ==
    IF AddressOf(a, label) # badAddress THEN Lsr32(AddressOf(a, label), 12) ELSE 0

HiAssembler(a, label) ==
    IF AddressOf(a, label) # badAddress THEN a ELSE AddFixup(a, "hi20", label)

LoValue(a, label) ==
    IF AddressOf(a, label) # badAddress THEN And32(AddressOf(a, label), \hfff) ELSE 0

LoAssembler(a, label) ==
    IF AddressOf(a, label) # badAddress THEN a ELSE AddFixup(a, "lo12", label)

---------------------------------------------------------------------------
(* main.cpp: Transcode and Rv32iToOwl.                                     *)

Transcode(a, code) ==
    LET k2 == And32(code, MaskR)
        k3 == And32(code, MaskI)
        k4 == And32(code, MaskOp)
    IN  CASE code = \h00000073 -> AsmEcall(a)
          [] code = \h00100073 -> AsmEbreak(a)
          [] k2 = \h00000033 -> AsmRegReg(a, Opcode.Add, Rd(code), Rs1(code), Rs2(code))
          [] k2 = \h40000033 -> AsmRegReg(a, Opcode.Sub, Rd(code), Rs1(code), Rs2(code))
          [] k2 = \h00001033 -> AsmRegReg(a, Opcode.Sll, Rd(code), Rs1(code), Rs2(code))
          [] k2 = \h00002033 -> AsmRegReg(a, Opcode.Slt, Rd(code), Rs1(code), Rs2(code))
          [] k2 = \h00003033 -> AsmRegReg(a, Opcode.Sltu, Rd(code), Rs1(code), Rs2(code))
          [] k2 = \h00004033 -> AsmRegReg(a, Opcode.Xor, Rd(code), Rs1(code), Rs2(code))
          [] k2 = \h00005033 -> AsmRegReg(a, Opcode.Srl, Rd(code), Rs1(code), Rs2(code))
          [] k2 = \h40005033 -> AsmRegReg(a, Opcode.Sra, Rd(code), Rs1(code), Rs2(code))
          [] k2 = \h00006033 -> AsmRegReg(a, Opcode.Or, Rd(code), Rs1(code), Rs2(code))
          [] k2 = \h00007033 -> AsmRegReg(a, Opcode.And, Rd(code), Rs1(code), Rs2(code))
          [] k2 = \h00001013 -> AsmShift(a, Opcode.Slli, Rd(code), Rs1(code), Shamtw(code))
          [] k2 = \h00005013 -> AsmShift(a, Opcode.Srli, Rd(code), Rs1(code), Shamtw(code))
          [] k2 = \h40005013 -> AsmShift(a, Opcode.Srai, Rd(code), Rs1(code), Shamtw(code))
          [] k3 = \h00000063 -> Branch(a, Opcode.Beq, Rs1(code), Rs2(code), Bimmediate(code))
          [] k3 = \h00001063 -> Branch(a, Opcode.Bne, Rs1(code), Rs2(code), Bimmediate(code))
          [] k3 = \h00004063 -> Branch(a, Opcode.Blt, Rs1(code), Rs2(code), Bimmediate(code))
          [] k3 = \h00005063 -> Branch(a, Opcode.Bge, Rs1(code), Rs2(code), Bimmediate(code))
          [] k3 = \h00006063 -> Branch(a, Opcode.Bltu, Rs1(code), Rs2(code), Bimmediate(code))
          [] k3 = \h00007063 -> Branch(a, Opcode.Bgeu, Rs1(code), Rs2(code), Bimmediate(code))
          [] k3 = \h00000067 -> AsmJalr(a, Rd(code), Iimmediate(code), Rs1(code))
          [] k3 = \h00000013 -> AsmRegImm(a, Opcode.Addi, Rd(code), Rs1(code), Iimmediate(code))
          [] k3 = \h00002013 -> AsmRegImm(a, Opcode.Slti, Rd(code), Rs1(code), Iimmediate(code))
          [] k3 = \h00003013 -> AsmRegImm(a, Opcode.Sltiu, Rd(code), Rs1(code), Iimmediate(code))
          [] k3 = \h00004013 -> AsmRegImm(a, Opcode.Xori, Rd(code), Rs1(code), Iimmediate(code))
          [] k3 = \h00006013 -> AsmRegImm(a, Opcode.Ori, Rd(code), Rs1(code), Iimmediate(code))
          [] k3 = \h00007013 -> AsmRegImm(a, Opcode.Andi, Rd(code), Rs1(code), Iimmediate(code))
          [] k3 = \h00000003 -> AsmLoad(a, Opcode.Lb, Rd(code), Iimmediate(code), Rs1(code))
          [] k3 = \h00001003 -> AsmLoad(a, Opcode.Lh, Rd(code), Iimmediate(code), Rs1(code))
          [] k3 = \h00002003 -> AsmLoad(a, Opcode.Lw, Rd(code), Iimmediate(code), Rs1(code))
          [] k3 = \h00004003 -> AsmLoad(a, Opcode.Lbu, Rd(code), Iimmediate(code), Rs1(code))
          [] k3 = \h00005003 -> AsmLoad(a, Opcode.Lhu, Rd(code), Iimmediate(code), Rs1(code))
          [] k3 = \h00000023 -> AsmStore(a, Opcode.Sb, Rs1(code), Simmediate(code), Rs2(code))
          [] k3 = \h00001023 -> AsmStore(a, Opcode.Sh, Rs1(code), Simmediate(code), Rs2(code))
          [] k3 = \h00002023 -> AsmStore(a, Opcode.Sw, Rs1(code), Simmediate(code), Rs2(code))
          [] k3 = \h0000000f -> AsmFence(a)
          [] k4 = \h0000006f -> AsmJal(a, Rd(code), Jimmediate(code))
          [] k4 = \h00000037 -> AsmLui(a, Rd(code), Uimmediate(code))
          [] k4 = \h00000017 -> AsmAuipc(a, Rd(code), Uimmediate(code))
          [] OTHER -> AsmIllegal(a, code)

\* The assembler after transcoding every word of an image, in order: the loop of
\* Rv32iToOwl, taken as the words of the first half and then those of the second.
RECURSIVE TranscodeAll(_, _)
TranscodeAll(a, image) ==
    IF image = <<>> THEN a
    ELSE IF Len(image) = 1 THEN Transcode(a, image[1])
    ELSE ByValue(TranscodeAll, TranscodeAll(a, SubSeq(image, 1, Len(image) \div 2)),
                 SubSeq(image, (Len(image) \div 2) + 1, Len(image)))

\* Rv32iToOwl(image).
Rv32iToOwl(image) == TranscodeAll(NewAssembler, image).code_

---------------------------------------------------------------------------
(* The programs the model runs.  An Owl program is a list of assembler     *)
(* calls <<method, operands...>>, assembled as Assemble() does, one call   *)
(* after the other; an RV32I program is a list of RV32I words, built from  *)
(* the standard instruction formats.                                       *)

AsmCall(a, d) ==
    CASE d[1] \in {"Add", "Sub", "Sll", "Slt", "Sltu", "Xor", "Srl", "Sra", "Or", "And"} ->
            AsmRegReg(a, Opcode[d[1]], d[2], d[3], d[4])
      [] d[1] \in {"Slli", "Srli", "Srai"} -> AsmShift(a, Opcode[d[1]], d[2], d[3], d[4])
      [] d[1] \in {"Beq", "Bne", "Blt", "Bge", "Bltu", "Bgeu"} ->
            Branch(a, Opcode[d[1]], d[2], d[3], d[4])
      [] d[1] \in {"Addi", "Slti", "Sltiu", "Xori", "Ori", "Andi"} ->
            AsmRegImm(a, Opcode[d[1]], d[2], d[3], d[4])
      [] d[1] \in {"Lb", "Lbu", "Lh", "Lhu", "Lw"} -> AsmLoad(a, Opcode[d[1]], d[2], d[3], d[4])
      [] d[1] \in {"Sb", "Sh", "Sw"} -> AsmStore(a, Opcode[d[1]], d[2], d[3], d[4])
      [] d[1] = "Jalr" -> AsmJalr(a, d[2], d[3], d[4])
      [] d[1] = "Jal" -> AsmJal(a, d[2], d[3])
      [] d[1] = "Lui" -> AsmLui(a, d[2], d[3])
      [] d[1] = "Auipc" -> AsmAuipc(a, d[2], d[3])
      [] d[1] \in {"J", "Call"} -> Jump(a, Opcode[d[1]], d[2])
      [] d[1] = "Li" -> AsmLi(a, d[2], d[3])
      [] d[1] = "Mv" -> AsmMv(a, d[2], d[3])
      [] d[1] = "Ecall" -> AsmEcall(a)
      [] d[1] = "Ebreak" -> AsmEbreak(a)
      [] d[1] = "Fence" -> AsmFence(a)
      [] d[1] = "Ret" -> AsmRet(a)
      [] d[1] = "Word" -> Emit(a, d[2])

RECURSIVE AssembleAll(_, _)
AssembleAll(a, calls) ==
    IF calls = <<>> THEN a ELSE AssembleAll(AsmCall(a, Head(calls)), Tail(calls))

Assemble(calls) == AssembleAll(NewAssembler, calls).code_

\* RV32I instruction formats (The RISC-V Instruction Set Manual, volume I, 2.2, 2.3).
RvR(funct7, rs2, rs1, funct3, rd, op) ==
    Or32(Or32(Or32(Or32(Or32(Shl32(funct7, 25), Shl32(rs2, 20)), Shl32(rs1, 15)),
                   Shl32(funct3, 12)), Shl32(rd, 7)), op)

RvI(imm, rs1, funct3, rd, op) ==
    Or32(Or32(Or32(Or32(Shl32(imm, 20), Shl32(rs1, 15)), Shl32(funct3, 12)), Shl32(rd, 7)), op)

RvS(imm, rs2, rs1, funct3, op) ==
    Or32(Or32(Or32(Or32(Or32(Shl32(And32(Lsr32(imm, 5), \h7f), 25), Shl32(rs2, 20)),
                        Shl32(rs1, 15)), Shl32(funct3, 12)), Shl32(And32(imm, \h1f), 7)), op)

RvB(imm, rs2, rs1, funct3, op) ==
    Or32(Or32(Or32(Or32(Or32(Or32(Or32(Shl32(Bit(imm, 12), 31),
                                       Shl32(And32(Lsr32(imm, 5), \h3f), 25)),
                                  Shl32(rs2, 20)), Shl32(rs1, 15)), Shl32(funct3, 12)),
                   Shl32(And32(Lsr32(imm, 1), \hf), 8)), Shl32(Bit(imm, 11), 7)), op)

RvU(imm, rd, op) == Or32(Or32(And32(imm, Mask20), Shl32(rd, 7)), op)

RvJ(imm, rd, op) ==
    Or32(Or32(Or32(Or32(Or32(Shl32(Bit(imm, 20), 31), Shl32(And32(Lsr32(imm, 1), \h3ff), 21)),
                        Shl32(Bit(imm, 11), 20)), Shl32(And32(Lsr32(imm, 12), \hff), 12)),
              Shl32(rd, 7)), op)

\* The host words a std::vector<uint32_t> holds when its bytes are the little-endian
\* encoding of the words ws (how a guest binary read from a file sits in memory).
RECURSIVE LoadedLE(_)
LoadedLE(ws) ==
    IF ws = <<>> THEN <<>>
    ELSE <<HostValue32(<<Head(ws) % 256, (Head(ws) \div 256) % 256, (Head(ws) \div Half) % 256,
                         (Head(ws) \div (Half * 256)) % 256>>)>> \o LoadedLE(Tail(ws))

\* main(): a zeroed image of nwords host words with the code copied to its start, seen
\* as the bytes the VM is lent.
ImageOf(code, nwords) ==
    [addr \in 0..(4 * nwords - 1) |->
        IF addr \div 4 < Len(code) THEN HostBytes32(code[(addr \div 4) + 1])[(addr % 4) + 1] ELSE 0]

---------------------------------------------------------------------------
(* Bounds of the model and the programs it runs.                           *)

\* Size of the memory image in 32-bit words.
MemWords == 8

\* Loop iterations a run may start.
MaxSteps == 5

\* Values an undefined read or computation may produce.
UndefWords == {0, -1, \h7fffffff}

\* Assembler calls that load a register with a value of interest.
Values(r) ==
    {<<"Li", r, 1>>, <<"Li", r, -1>>, <<"Li", r, 291>>,
     <<"Lui", r, \h80000>>, <<"Lui", r, \h7ffff>>}

\* Assembler calls that load a register with a shift count: 1, 31, 36, 0xffffffff,
\* 0xffffffe1 and 0x80000000.
Counts(r) ==
    {<<"Li", r, 1>>, <<"Li", r, 31>>, <<"Li", r, 36>>, <<"Li", r, -1>>, <<"Li", r, -31>>,
     <<"Lui", r, \h80000>>}

ShiftRegPrograms ==
    {<<v, n, <<op, t2, t0, t1>>>> : v \in Values(t0), n \in Counts(t1), op \in {"Sll", "Srl", "Sra"}}

ShiftImmPrograms ==
    {<<v, <<op, r0, t0, n>>>> :
        v \in Values(t0), op \in {"Slli", "Srli", "Srai"}, r0 \in {t0, t2}, n \in {0, 1, 4, 31}}

CompareImmPrograms ==
    {<<v, <<op, t2, t0, imm>>>> :
        v \in Values(t0), op \in {"Slti", "Sltiu"}, imm \in {-2048, -1, 0, 1, 5, 292, 2047}}

BranchPrograms ==
    {<<v, w, <<op, t0, t1, offs>>>> :
        v \in {<<"Li", t0, 1>>, <<"Li", t0, -1>>, <<"Lui", t0, \h80000>>},
        w \in {<<"Li", t1, 1>>, <<"Li", t1, -1>>, <<"Li", t1, 0>>},
        op \in {"Beq", "Bne", "Blt", "Bge", "Bltu", "Bgeu"},
        offs \in {8, -8, 2046, -2048}}

JalrPrograms ==
    {<<v, <<"Jalr", r0, offs, t0>>>> :
        v \in {<<"Li", t0, 12>>, <<"Li", t0, -1>>, <<"Lui", t0, \h80000>>, <<"Lui", t0, \h7ffff>>},
        r0 \in {zero, ra, t0}, offs \in {-4096, -2, 0, 8, 4094}}

JumpPrograms ==
    {<<<<"Li", ra, 20>>, <<"Jal", r0, offs>>>> : r0 \in {zero, ra, t0}, offs \in {8, -4, 1048574, -1048576}}
    \cup {<<<<"Li", ra, 20>>, <<op, offs>>>> : op \in {"J", "Call"}, offs \in {8, -4, 1048574, -1048576}}
    \cup {<<v, <<"Ret">>>> : v \in {<<"Li", ra, 12>>, <<"Li", ra, -1>>, <<"Lui", ra, \h80000>>}}
    \cup {<<<<"Call", 12>>, <<"Ebreak">>, <<"Ebreak">>, <<"Li", a0, 42>>, <<"Ret">>>>}

\* Every register-writing method with destination zero, and the rest of the set.
OtherPrograms ==
    {<<<<"Li", t0, -1>>, <<op, zero, t0, t0>>>> :
        op \in {"Add", "Sub", "Sll", "Slt", "Sltu", "Xor", "Srl", "Sra", "Or", "And",
                "Addi", "Slti", "Sltiu", "Xori", "Ori", "Andi"}}
    \cup {<<<<"Li", t0, 3>>, <<"Li", t1, -1>>, <<op, t2, t0, t1>>>> :
        op \in {"Add", "Sub", "Slt", "Sltu", "Xor", "Or", "And"}}
    \cup {<<<<"Li", t0, 3>>, <<op, t2, t0, -6>>>> : op \in {"Addi", "Xori", "Ori", "Andi"}}
    \cup {<<<<"Li", t0, -2>>, <<"Sw", t0, 16, zero>>, <<op, r0, 16, zero>>>> :
        op \in {"Lb", "Lbu", "Lh", "Lhu", "Lw"}, r0 \in {zero, t2}}
    \cup {<<<<"Li", t0, 291>>, <<op, t0, -8, sp>>, <<"Lw", t2, -8, sp>>>> : op \in {"Sb", "Sh", "Sw"}}
    \cup {<<<<op, r0, \hfffff>>>> : op \in {"Lui", "Auipc"}, r0 \in {zero, t2}}
    \cup {<<<<"Li", t0, 7>>, <<"Mv", r0, t0>>>> : r0 \in {zero, t2}}
    \cup {<<<<"Li", zero, 7>>, <<"Fence">>, <<"Ebreak">>>>}
    \cup {<<<<"Li", a7, n>>, <<"Li", a0, 3>>, <<"Ecall">>, <<"Li", a1, 4>>>> : n \in {0, 1, 2}}
    \cup {<<<<"Word", w>>>> : w \in (46..127) \cup {0, \h80, -1, -128}}

\* Register-register instructions on operands that wrap around or differ in sign.
RegRegPrograms ==
    {<<v, w, <<op, t2, t0, t1>>>> :
        v \in {<<"Li", t0, -1>>, <<"Lui", t0, \h80000>>, <<"Li", t0, 291>>},
        w \in {<<"Li", t1, 1>>, <<"Li", t1, 0>>, <<"Li", t1, -86>>},
        op \in {"Add", "Sub", "Slt", "Sltu", "Xor", "Or", "And"}}

\* t0 = 0x718283f4 stored as a word at 16, then a load of each width at 16..19; and
\* a store of each width at 16..19, then the load of the same width there.
LoadStorePrograms ==
    {<<<<"Lui", t0, \h71828>>, <<"Addi", t0, t0, \h3f4>>, <<"Sw", t0, 16, zero>>,
       <<op, t2, 16 + k, zero>>>> : op \in {"Lb", "Lbu", "Lh", "Lhu", "Lw"}, k \in 0..3}
    \cup {<<<<"Lui", t0, \h71828>>, <<"Addi", t0, t0, \h3f4>>, <<f[1], t0, 16 + k, zero>>,
            <<f[2], t2, 16 + k, zero>>>> :
            f \in {<<"Sb", "Lbu">>, <<"Sh", "Lhu">>, <<"Sw", "Lw">>}, k \in 0..3}

\* Loads and stores that start or end outside the memory: at sp (its end), across its
\* end, and at 0xffffffff.
OutsidePrograms ==
    {<<<<"Li", t0, 291>>, <<f[1], t0, f[2], f[3]>>>> :
        f \in {<<"Lw", 0, sp>>, <<"Lw", -2, sp>>, <<"Lh", -1, sp>>, <<"Lb", -1, zero>>,
               <<"Lbu", 0, sp>>, <<"Lhu", 0, sp>>,
               <<"Sw", 0, sp>>, <<"Sw", -2, sp>>, <<"Sh", -1, sp>>, <<"Sb", -1, zero>>}}

\* ecall with both arguments loaded.
EcallPrograms ==
    {<<<<"Li", a7, n>>, <<"Li", a0, 7>>, <<"Li", a1, 13>>, <<"Ecall">>, <<"Li", t0, 1>>>> :
        n \in {0, 1, 2, -1}}

\* lui and auipc at address 4, with operands that fill the upper 20 bits or set bit 31.
UpperPrograms ==
    {<<<<"Li", t0, 1>>, <<op, r0, v>>>> :
        op \in {"Lui", "Auipc"}, r0 \in {zero, t2}, v \in {\hfffff, \h12345, \h80000, 1}}

\* The instruction words a program stores over its own code: li t2, 77 and
\* xori t2, t2, -1 (0x04d003ac and 0xfff07399).
NewWords ==
    {Or32(Or32(encode_opc(Opcode.Li), encode_r0(t2)), encode_imm12(77)),
     Or32(Or32(Or32(encode_opc(Opcode.Xori), encode_r0(t2)), encode_r1(t2)), encode_imm12(-1))}

\* The operands of lui and addi that build the word w: its low 12 bits sign-extended,
\* and the upper 20 bits of what remains.
AddiPart(w) == IF w % 4096 >= 2048 THEN (w % 4096) - 4096 ELSE w % 4096

LuiPart(w) == Lsr32(Sub32(w, AddiPart(w)), 12)

\* t0 = a new instruction word, then a store of each width over the bytes of the
\* instruction that follows the store, at 12..15: one byte at each of them, a half word
\* at 11, 12, 13 and 14, a word at 10 and 12; the instruction stored over is ebreak or
\* addi t2, zero, 5.
SelfModifyingPrograms ==
    {<<<<"Lui", t0, LuiPart(w)>>, <<"Addi", t0, t0, AddiPart(w)>>, <<f[1], t0, f[2], zero>>, old>> :
        w \in NewWords,
        f \in {<<"Sb", 12>>, <<"Sb", 13>>, <<"Sb", 14>>, <<"Sb", 15>>, <<"Sh", 11>>,
               <<"Sh", 12>>, <<"Sh", 13>>, <<"Sh", 14>>, <<"Sw", 10>>, <<"Sw", 12>>},
        old \in {<<"Ebreak">>, <<"Addi", t2, zero, 5>>}}

OwlPrograms ==
    ShiftRegPrograms \cup ShiftImmPrograms \cup CompareImmPrograms \cup BranchPrograms
    \cup JalrPrograms \cup JumpPrograms \cup OtherPrograms \cup RegRegPrograms
    \cup LoadStorePrograms \cup OutsidePrograms \cup EcallPrograms \cup UpperPrograms
    \cup SelfModifyingPrograms

\* RV32I programs: addi t0, zero, v (or lui t0, v), then one instruction of each kind.
RvValues == {RvI(-1, zero, 0, t0, \h13), RvI(3, zero, 0, t0, \h13), RvU(Word(\h8000, 0), t0, \h37)}

RvTests ==
    {RvR(f[1], t0, t0, f[2], rd, \h33) :
        f \in {<<0, 0>>, <<32, 0>>, <<0, 1>>, <<0, 2>>, <<0, 3>>, <<0, 4>>, <<0, 5>>, <<32, 5>>,
               <<0, 6>>, <<0, 7>>, <<1, 0>>},
        rd \in {zero, t2}}
    \cup {RvR(f[1], n, t0, f[2], t2, \h13) : f \in {<<0, 1>>, <<0, 5>>, <<32, 5>>}, n \in {1, 31}}
    \cup {RvB(offs, t0, zero, f3, \h63) : f3 \in {0, 1, 4, 5, 6, 7}, offs \in {8, -4096}}
    \cup {RvI(imm, t0, 0, rd, \h67) : imm \in {8, 5}, rd \in {zero, ra}}
    \cup {RvI(imm, t0, f3, t2, \h13) : f3 \in {0, 2, 3, 4, 6, 7}, imm \in {-2048, 5}}
    \cup {RvI(16, zero, f3, t2, \h03) : f3 \in {0, 1, 2, 4, 5}}
    \cup {RvS(20, t0, zero, f3, \h23) : f3 \in {0, 1, 2}}
    \cup {RvI(0, zero, 0, zero, \h0f), \h00000073, \h00100073, 0}
    \cup {RvJ(offs, rd, \h6f) : offs \in {8, -1048576}, rd \in {zero, ra}}
    \cup {RvU(imm, t2, op) : imm \in {\h12345000, Word(\hffff, \hf000)}, op \in {\h37, \h17}}

Rv32iPrograms == {<<v, w>> : v \in RvValues, w \in RvTests}

---------------------------------------------------------------------------
(* Run and RunRv32i: while (!cpu.Done()) { ins = cpu.Fetch(); Dispatch(cpu, ins); } *)

Init ==
    /\ big \in BOOLEAN
    /\ \/ /\ isa = "owl"
          /\ \E p \in OwlPrograms : \E code \in {Assemble(p)} :
                cpu = OwlCpu(ImageOf(code, MemWords))
       \/ /\ isa = "rv32i"
          /\ \E p \in Rv32iPrograms : \E code \in {LoadedLE(p)} :
                cpu = OwlCpu(ImageOf(code, MemWords))
    /\ ins = 0
    /\ loc = "loop"
    /\ cout = <<>>
    /\ steps = 0
    /\ asm = NewAssembler
    /\ log = <<>>

\* A loop that does not test Done().
LoopForever == TRUE

\* The loop condition.
LoopCond == ~Done(cpu)

\* const uint32_t ins = cpu.Fetch();
Fetch ==
    /\ loc = "loop"
    /\ LoopCond
    /\ steps < MaxSteps
    /\ \E u \in UndefWords :
          /\ cpu' = FetchCpu(cpu)
          /\ ins' = FetchWord(cpu, u)
    /\ loc' = "dispatch"
    /\ steps' = steps + 1
    /\ UNCHANGED <<isa, big, cout, asm, log>>

\* DispatchOwl(cpu, ins); in Run.
RunDispatch ==
    /\ loc = "dispatch"
    /\ isa = "owl"
    /\ \E u \in UndefWords :
          /\ cpu' = DispatchOwl(cpu, ins, u)
          /\ cout' = cout \o OwlOutput(cpu, ins, u)
    /\ loc' = "loop"
    /\ UNCHANGED <<ins, isa, big, steps, asm, log>>

\* DispatchRv32i(cpu, ins); in RunRv32i.
RunRv32iDispatch ==
    /\ loc = "dispatch"
    /\ isa = "rv32i"
    /\ \E u \in UndefWords :
          /\ cpu' = DispatchRv32i(cpu, ins, u)
          /\ cout' = cout \o Rv32iOutput(cpu, ins, u)
    /\ loc' = "loop"
    /\ UNCHANGED <<ins, isa, big, steps, asm, log>>

\* The loop ends and the function returns.
Return ==
    /\ loc = "loop"
    /\ ~LoopCond
    /\ loc' = "returned"
    /\ UNCHANGED <<cpu, ins, isa, big, cout, steps, asm, log>>

Next == Fetch \/ RunDispatch \/ RunRv32iDispatch \/ Return

Spec == Init /\ [][Next]_vars

---------------------------------------------------------------------------
(* Properties.  ins keeps the word of the last Fetch, so at loc = "dispatch" *)
(* cpu is the state the instruction starts from and cpu' the state it       *)
(* leaves, and at loc = "loop" with steps > 0 ins is the instruction that   *)
(* has just completed.                                                      *)

\* Run is about to dispatch / has just completed the Owl instruction with this opcode.
AtOwl(opcode) == loc = "dispatch" /\ isa = "owl" /\ And32(ins, \h7f) = opcode

AfterOwl(opcode) == loc = "loop" /\ steps > 0 /\ isa = "owl" /\ And32(ins, \h7f) = opcode

\* a < b on the unsigned values of two words, by their 16-bit halves.
UnsignedHigh(a) == (a \div Half) % Half

UnsignedLess(a, b) ==
    \/ UnsignedHigh(a) < UnsignedHigh(b)
    \/ UnsignedHigh(a) = UnsignedHigh(b) /\ a % Half < b % Half

\* The value of a destination register after a write of v: register 0 keeps 0.
Written(r, v) == IF r = 0 THEN 0 ELSE v

\* The word 0x80000000.
MinWord == Word(\h8000, 0)

\* C1: after every instruction dispatched by DispatchOwl or DispatchRv32i register
\* x[0] is 0, also when the instruction names register 0 as its destination.
C1_ZeroRegister == [][loc = "dispatch" => cpu'.x[0] = 0]_vars

\* An add with destination 0 and a non-zero sum has completed, and x[0] is 0.
C1_Witness ==
    /\ AfterOwl(Opcode.Add)
    /\ decode_r0(ins) = 0
    /\ Add32(cpu.x[decode_r1(ins)], cpu.x[decode_r2(ins)]) # 0
    /\ cpu.x[0] = 0

\* The little-endian word at byte address a of the memory image.
LittleEndianWord(memory, a) ==
    Word(memory[a + 3] * 256 + memory[a + 2], memory[a + 1] * 256 + memory[a])

\* C2: every iteration of the run loop performs Fetch (pc becomes next_pc, next_pc
\* becomes pc + 4, the word fetched is the little-endian word pc / 4) followed by exactly
\* one dispatch of that word; once done is true there is no further fetch or dispatch,
\* and done, pc, next_pc, the registers and memory keep their values.
C2_RunLoop ==
    [][/\ loc = "loop" /\ ~cpu.done =>
            /\ loc' = "dispatch"
            /\ cpu'.pc = cpu.nextPc
            /\ cpu'.nextPc = Add32(cpu'.pc, 4)
            /\ cpu'.x = cpu.x /\ cpu'.memory = cpu.memory /\ cpu'.done = cpu.done
            /\ (cpu'.pc >= 0 /\ cpu'.pc < MemSize(cpu.memory) =>
                    ins' = LittleEndianWord(cpu.memory, 4 * (cpu'.pc \div 4)))
       /\ loc = "dispatch" =>
            /\ loc' = "loop"
            /\ ins' = ins
            /\ steps' = steps
            /\ \E u \in UndefWords :
                  cpu' = IF isa = "owl" THEN DispatchOwl(cpu, ins, u) ELSE DispatchRv32i(cpu, ins, u)
       /\ cpu.done => loc # "dispatch" /\ loc' = "returned" /\ cpu' = cpu /\ ins' = ins
      ]_vars

\* A run that executed instructions and ended by one that set done has returned.
C2_Witness == loc = "returned" /\ cpu.done /\ steps > 1 /\ cpu.nextPc = Add32(cpu.pc, 4)

\* The Owl word the transcoder emits for an RV32I word, as Fetch returns it.
OwlWordFor(code) == AsLE32(Head(Transcode(NewAssembler, code).code_))

\* C3: for every RV32I word the transcoder supports and every CPU state, executing
\* the Owl word the transcoder emits for it through DispatchOwl leaves registers,
\* memory, next_pc and done as executing the RV32I word through DispatchRv32i does.
C3_TranscodeEquivalent ==
    [][loc = "dispatch" /\ isa = "rv32i" /\ And32(OwlWordFor(ins), \h7f) # Opcode.Illegal =>
            \E u \in UndefWords :
                LET owl == DispatchOwl(cpu, OwlWordFor(ins), u)
                IN  /\ owl.x = cpu'.x
                    /\ owl.memory = cpu'.memory
                    /\ owl.nextPc = cpu'.nextPc
                    /\ owl.done = cpu'.done
      ]_vars

\* lui t2, 0x12345 has run through DispatchRv32i and left 0x12345000 in t2; the Owl
\* word transcoded from it holds the immediate 0x45000000.
C3_Witness ==
    /\ loc = "loop" /\ steps > 0 /\ isa = "rv32i"
    /\ ins = RvU(\h12345000, t2, \h37)
    /\ cpu.x[t2] = \h12345000
    /\ decode_uimm20(OwlWordFor(ins)) = \h45000000

\* C4: Srli r0, r1, shift sets x[r0] to x[r1] shifted right logically by shift, for
\* every x[r1], also with bit 31 set, and every shift in 0..31.
C4_SrliLogical ==
    [][AtOwl(Opcode.Srli) =>
            cpu'.x[decode_r0(ins)] =
                Written(decode_r0(ins), Lsr32(cpu.x[decode_r1(ins)], decode_shift(ins)))
      ]_vars

\* srli t2, t0, 1 has run with x[t0] = 0x80000000 and left 0xc0000000 in t2.
C4_Witness ==
    /\ AfterOwl(Opcode.Srli)
    /\ decode_r0(ins) = t2 /\ decode_r1(ins) = t0 /\ decode_shift(ins) = 1
    /\ cpu.x[t0] = MinWord
    /\ cpu.x[t2] = Word(\hc000, 0)

\* C5: Srai r0, r1, shift sets x[r0] to x[r1] shifted right arithmetically by shift,
\* for every x[r1] and every shift in 0..31; Slli shifts left by shift, filling with
\* zeros.
C5_SraiArithmeticSlliLeft ==
    [][/\ AtOwl(Opcode.Srai) =>
            cpu'.x[decode_r0(ins)] =
                Written(decode_r0(ins), Asr32(cpu.x[decode_r1(ins)], decode_shift(ins)))
       /\ AtOwl(Opcode.Slli) =>
            cpu'.x[decode_r0(ins)] =
                Written(decode_r0(ins), Shl32(cpu.x[decode_r1(ins)], decode_shift(ins)))
      ]_vars

\* srai t2, t0, 1 has run with x[t0] = 0x80000000 and left 0x40000000 in t2.
C5_Witness ==
    /\ AfterOwl(Opcode.Srai)
    /\ decode_r0(ins) = t2 /\ decode_r1(ins) = t0 /\ decode_shift(ins) = 1
    /\ cpu.x[t0] = MinWord
    /\ cpu.x[t2] = \h40000000

\* C6: Slti r0, r1, imm12 sets x[r0] to 1 if x[r1] is less than imm12 as signed values
\* and to 0 otherwise, Sltiu does so for the unsigned values of x[r1] and of the
\* sign-extended imm12; the result depends on x[r1] and imm12 only.
C6_SetLessThanImmediate ==
    [][/\ AtOwl(Opcode.Slti) =>
            cpu'.x[decode_r0(ins)] =
                Written(decode_r0(ins),
                        IF cpu.x[decode_r1(ins)] < decode_imm12(ins) THEN 1 ELSE 0)
       /\ AtOwl(Opcode.Sltiu) =>
            cpu'.x[decode_r0(ins)] =
                Written(decode_r0(ins),
                        IF UnsignedLess(cpu.x[decode_r1(ins)], decode_imm12(ins)) THEN 1 ELSE 0)
      ]_vars

\* slti t2, t0, 5 has run with x[t0] = 1 and left 0 in t2: 1 was compared with
\* x[5], which is x[t0] itself.
C6_Witness ==
    /\ AfterOwl(Opcode.Slti)
    /\ decode_r0(ins) = t2 /\ decode_r1(ins) = t0 /\ decode_imm12(ins) = 5
    /\ cpu.x[t0] = 1
    /\ cpu.x[t2] = 0

\* C7: Sra r0, r1, r2 sets x[r0] to x[r1] shifted right arithmetically by the low five
\* bits of x[r2], for every x[r2], also with bit 31 set; 0x80000000 shifted by 31
\* gives 0xffffffff.
C7_SraLowFiveBits ==
    [][AtOwl(Opcode.Sra) =>
            cpu'.x[decode_r0(ins)] =
                Written(decode_r0(ins), Asr32(cpu.x[decode_r1(ins)], cpu.x[decode_r2(ins)] % 32))
      ]_vars

\* sra t2, t0, t1 has run with x[t1] = 0xffffffe1, whose low five bits are 1, and left
\* in t2 something else than x[t0] shifted by 1.
C7_Witness ==
    /\ AfterOwl(Opcode.Sra)
    /\ decode_r0(ins) = t2 /\ decode_r1(ins) = t0 /\ decode_r2(ins) = t1
    /\ cpu.x[t1] = -31
    /\ cpu.x[t2] # Asr32(cpu.x[t0], 1)

\* The condition of a conditional branch on the values a and b of x[r0] and x[r1].
BranchCondition(opcode, a, b) ==
    CASE opcode = Opcode.Beq -> a = b
      [] opcode = Opcode.Bne -> a # b
      [] opcode = Opcode.Blt -> a < b
      [] opcode = Opcode.Bge -> ~(a < b)
      [] opcode = Opcode.Bltu -> UnsignedLess(a, b)
      [] opcode = Opcode.Bgeu -> ~UnsignedLess(a, b)

BranchOpcodes == {Opcode.Beq, Opcode.Bne, Opcode.Blt, Opcode.Bge, Opcode.Bltu, Opcode.Bgeu}

\* C8: a conditional branch at address pc whose condition holds sets next_pc to
\* pc + offs12 modulo 2^32, and otherwise leaves it pc + 4; Beq and Bne compare x[r0]
\* and x[r1] for equality, Blt and Bge as signed, Bltu and Bgeu as unsigned values;
\* nothing else changes.
C8_Branches ==
    [][\A opcode \in BranchOpcodes :
            AtOwl(opcode) =>
                /\ cpu'.nextPc =
                      IF BranchCondition(opcode, cpu.x[decode_r0(ins)], cpu.x[decode_r1(ins)])
                      THEN Add32(cpu.pc, decode_offs12(ins))
                      ELSE Add32(cpu.pc, 4)
                /\ cpu'.x = cpu.x /\ cpu'.memory = cpu.memory
                /\ cpu'.done = cpu.done /\ cpu'.pc = cpu.pc
      ]_vars

\* bltu t0, t1, -0x800 at pc = 8 has been taken with x[t0] = 1 and x[t1] = 0xffffffff
\* and next_pc is pc - 0x800 modulo 2^32.
C8_Witness ==
    /\ AfterOwl(Opcode.Bltu)
    /\ decode_offs12(ins) = -2048
    /\ cpu.x[decode_r0(ins)] = 1 /\ cpu.x[decode_r1(ins)] = -1
    /\ cpu.pc = 8
    /\ cpu.nextPc = -2040

\* C9: Jalr r0, offs12(r1) at address pc sets next_pc to the old x[r1] plus offs12
\* modulo 2^32 and x[r0] to pc + 4, also when r0 and r1 are the same register; with
\* r0 = 0 the link value is discarded.
C9_JalrTarget ==
    [][AtOwl(Opcode.Jalr) =>
            /\ cpu'.nextPc = Add32(cpu.x[decode_r1(ins)], decode_offs12(ins))
            /\ cpu'.x = [cpu.x EXCEPT ![decode_r0(ins)] = Written(decode_r0(ins), Add32(cpu.pc, 4))]
      ]_vars

\* jalr ra, -2(t0) has run with x[t0] = 0x80000000 and next_pc is not 0x7ffffffe.
C9_Witness ==
    /\ AfterOwl(Opcode.Jalr)
    /\ decode_r0(ins) = ra /\ decode_r1(ins) = t0 /\ decode_offs12(ins) = -2
    /\ cpu.x[t0] = MinWord
    /\ cpu.x[ra] = Add32(cpu.pc, 4)
    /\ cpu.nextPc # \h7ffffffe

\* C10: Jal r0, offs20 at address pc sets x[r0] to pc + 4 and next_pc to pc + offs20
\* modulo 2^32; J offs20 sets only next_pc, to pc + offs20; Call offs20 sets x[ra] to
\* pc + 4 and next_pc to pc + offs20; Ret sets next_pc to x[ra].
C10_Jumps ==
    [][/\ AtOwl(Opcode.Jal) =>
            /\ cpu'.nextPc = Add32(cpu.pc, decode_offs20(ins))
            /\ cpu'.x = [cpu.x EXCEPT ![decode_r0(ins)] = Written(decode_r0(ins), Add32(cpu.pc, 4))]
       /\ AtOwl(Opcode.J) =>
            /\ cpu'.nextPc = Add32(cpu.pc, decode_offs20(ins))
            /\ cpu'.x = cpu.x
       /\ AtOwl(Opcode.Call) =>
            /\ cpu'.nextPc = Add32(cpu.pc, decode_offs20(ins))
            /\ cpu'.x = [cpu.x EXCEPT ![ra] = Add32(cpu.pc, 4)]
       /\ AtOwl(Opcode.Ret) =>
            /\ cpu'.nextPc = cpu.x[ra]
            /\ cpu'.x = cpu.x
       /\ AtOwl(Opcode.Jal) \/ AtOwl(Opcode.J) \/ AtOwl(Opcode.Call) \/ AtOwl(Opcode.Ret) =>
            cpu'.memory = cpu.memory /\ cpu'.done = cpu.done /\ cpu'.pc = cpu.pc
      ]_vars

\* A ret has returned to the address that a call at pc = 0 left in ra.
C10_Witness ==
    /\ AfterOwl(Opcode.Ret)
    /\ cpu.x[ra] = 4
    /\ cpu.nextPc = 4
    /\ cpu.pc = 16
    /\ cpu.x[a0] = 42

\* The effective address x[r1] + imm12 of the load or store in ins.
EffectiveAddress(c) == Add32(c.x[decode_r1(ins)], decode_imm12(ins))

\* The n bytes from address a on are all inside the memory.
Inside(memory, a, n) == a >= 0 /\ a <= MemSize(memory) - n

\* The little-endian half word at byte address a of the memory image.
LittleEndianHalf(memory, a) == memory[a + 1] * 256 + memory[a]

LoadOpcodes == {Opcode.Lb, Opcode.Lbu, Opcode.Lh, Opcode.Lhu, Opcode.Lw}

\* The number of bytes a load or store accesses.
Width(opcode) ==
    CASE opcode \in {Opcode.Lb, Opcode.Lbu, Opcode.Sb} -> 1
      [] opcode \in {Opcode.Lh, Opcode.Lhu, Opcode.Sh} -> 2
      [] opcode \in {Opcode.Lw, Opcode.Sw} -> 4

\* The value a load is to leave in its destination.
Loaded(opcode, memory, a) ==
    CASE opcode = Opcode.Lb -> SExt8(memory[a])
      [] opcode = Opcode.Lbu -> memory[a]
      [] opcode = Opcode.Lh -> SExt16(LittleEndianHalf(memory, a))
      [] opcode = Opcode.Lhu -> LittleEndianHalf(memory, a)
      [] opcode = Opcode.Lw -> LittleEndianWord(memory, a)

\* C11: Lb and Lh load 1 and 2 bytes from address x[r1] + imm12 and sign-extend them,
\* Lbu and Lhu zero-extend them, Lw loads 4 bytes; the byte at the lowest address is
\* the least significant, at any address inside the memory, aligned or not.
C11_Loads ==
    [][\A opcode \in LoadOpcodes :
            AtOwl(opcode) /\ Inside(cpu.memory, EffectiveAddress(cpu), Width(opcode)) =>
                cpu'.x[decode_r0(ins)] =
                    Written(decode_r0(ins), Loaded(opcode, cpu.memory, EffectiveAddress(cpu)))
      ]_vars

\* On a big-endian host lh t2, 17(zero) has run over the bytes 83 82 and left 0x83 in
\* t2 instead of 0xffff8283.
C11_Witness ==
    /\ AfterOwl(Opcode.Lh)
    /\ big
    /\ decode_r0(ins) = t2 /\ decode_r1(ins) = zero /\ decode_imm12(ins) = 17
    /\ cpu.memory[17] = 131 /\ cpu.memory[18] = 130
    /\ cpu.x[t2] = 131

StoreOpcodes == {Opcode.Sb, Opcode.Sh, Opcode.Sw}

\* Byte i (0 the least significant) of word v.
ByteOf(v, i) == (v \div (256 ^ i)) % 256

\* memory with the low n bytes of v at addresses a .. a + n - 1, least significant
\* byte first, and every other byte as it was.
Stored(memory, a, n, v) ==
    [b \in DOMAIN memory |-> IF b >= a /\ b < a + n THEN ByteOf(v, b - a) ELSE memory[b]]

\* What Read8, Read16 or Read32 returns for the width of a store.
ReadBack(opcode, memory, a) ==
    CASE opcode = Opcode.Sb -> Read8(memory, a, 0)
      [] opcode = Opcode.Sh -> Read16(memory, a, 0)
      [] opcode = Opcode.Sw -> Read32(memory, a, 0)

\* The low 8, 16 or 32 bits of v, for the width of a store.
LowBits(opcode, v) ==
    CASE opcode = Opcode.Sb -> Lo8(v)
      [] opcode = Opcode.Sh -> Lo16(v)
      [] opcode = Opcode.Sw -> v

\* C12: Sb, Sh and Sw write the low 8, 16 and 32 bits of x[r0] to the 1, 2 or 4 bytes
\* from address x[r1] + imm12 on, least significant byte first, and change no other
\* byte of memory; a read of the same width at the same address then returns the
\* stored low bits.
C12_Stores ==
    [][\A opcode \in StoreOpcodes :
            AtOwl(opcode) /\ Inside(cpu.memory, EffectiveAddress(cpu), Width(opcode)) =>
                /\ cpu'.memory =
                      Stored(cpu.memory, EffectiveAddress(cpu), Width(opcode), cpu.x[decode_r0(ins)])
                /\ ReadBack(opcode, cpu'.memory, EffectiveAddress(cpu)) =
                      LowBits(opcode, cpu.x[decode_r0(ins)])
      ]_vars

\* On a big-endian host sh t0, 17(zero) has run with x[t0] = 0x718283f4 and left the
\* bytes 00 83 at 17 and 18 instead of f4 83.
C12_Witness ==
    /\ AfterOwl(Opcode.Sh)
    /\ big
    /\ decode_r0(ins) = t0 /\ decode_r1(ins) = zero /\ decode_imm12(ins) = 17
    /\ Lo16(cpu.x[t0]) = 33780
    /\ cpu.memory[17] = 0 /\ cpu.memory[18] = 131

---------------------------------------------------------------------------
(* The functions of memory.h and the codecs, called on their own.  A caller    *)
(* constructs a VM over an image and calls one function on drawn arguments:   *)
(* cout lists the call with its arguments, cpu.memory is the buffer the call  *)
(* works on, ins is the word it returns, and loc is how far the caller is.    *)

\* An image whose bytes all differ from their neighbours.
UnitImage == [a \in 0..(4 * MemWords - 1) |-> (130 + 7 * a) % 256]

\* The words and half words written: 0x718283f4, 0x80000001, 0x00000102 and
\* 0xffffffff; 0x83f4, 0x0102 and 0xff00.
UnitWords == {Word(\h7182, \h83f4), Word(\h8000, 1), \h0102, -1}

UnitHalfWords == {\h83f4, \h0102, \hff00}

UnitInit ==
    /\ big \in BOOLEAN
    /\ isa = "owl"
    /\ cpu = OwlCpu(UnitImage)
    /\ ins = 0
    /\ loc = "start"
    /\ cout = <<>>
    /\ steps = 0
    /\ asm = NewAssembler
    /\ log = <<>>

\* Write32(memory, a, v) for an address with all four bytes inside the memory.
CallWrite32 ==
    /\ loc = "start"
    /\ \E a \in 0..(MemSize(cpu.memory) - 4), v \in UnitWords :
          /\ cpu' = [cpu EXCEPT !.memory = Write32(@, a, v)]
          /\ cout' = <<[call |-> "Write32", a0 |-> a, a1 |-> v]>>
    /\ loc' = "written32"
    /\ UNCHANGED <<ins, isa, big, steps, asm, log>>

\* Write16(memory, a, v) for an address with both bytes inside the memory.
CallWrite16 ==
    /\ loc = "start"
    /\ \E a \in 0..(MemSize(cpu.memory) - 2), v \in UnitHalfWords :
          /\ cpu' = [cpu EXCEPT !.memory = Write16(@, a, v)]
          /\ cout' = <<[call |-> "Write16", a0 |-> a, a1 |-> v]>>
    /\ loc' = "written16"
    /\ UNCHANGED <<ins, isa, big, steps, asm, log>>

\* Read32(memory, a) at the address just written.
CallRead32 ==
    /\ loc = "written32"
    /\ ins' = Read32(cpu.memory, cout[1].a0, 0)
    /\ loc' = "read32"
    /\ UNCHANGED <<cpu, isa, big, cout, steps, asm, log>>

\* Read16(memory, a) at the address just written.
CallRead16 ==
    /\ loc = "written16"
    /\ ins' = Read16(cpu.memory, cout[1].a0, 0)
    /\ loc' = "read16"
    /\ UNCHANGED <<cpu, isa, big, cout, steps, asm, log>>

\* Operands inside the field ranges: register indices, shift amounts, imm12, even
\* offs12 and even offs20, each with both ends of its range.
UnitRegisters == {0, 1, 17, 31}

UnitShifts == {0, 1, 31}

UnitImm12 == {-2048, -1, 0, 1, 2047}

UnitOffs12 == {-4096, -2, 0, 2, 4094}

UnitOffs20 == {-1048576, -2, 0, 2, 1048574}

\* The Assembler calls for every mnemonic but Lui, Auipc and Illegal.
UnitCalls ==
    {<<op, r0, r1, r2>> :
        op \in {"Add", "Sub", "Sll", "Slt", "Sltu", "Xor", "Srl", "Sra", "Or", "And"},
        r0 \in UnitRegisters, r1 \in UnitRegisters, r2 \in UnitRegisters}
    \cup {<<op, r0, r1, n>> :
        op \in {"Slli", "Srli", "Srai"}, r0 \in UnitRegisters, r1 \in UnitRegisters,
        n \in UnitShifts}
    \cup {<<op, r0, r1, offs>> :
        op \in {"Beq", "Bne", "Blt", "Bge", "Bltu", "Bgeu"}, r0 \in UnitRegisters,
        r1 \in UnitRegisters, offs \in UnitOffs12}
    \cup {<<op, r0, r1, imm>> :
        op \in {"Addi", "Slti", "Sltiu", "Xori", "Ori", "Andi"}, r0 \in UnitRegisters,
        r1 \in UnitRegisters, imm \in UnitImm12}
    \cup {<<op, r0, imm, r1>> :
        op \in {"Lb", "Lbu", "Lh", "Lhu", "Lw", "Sb", "Sh", "Sw"}, r0 \in UnitRegisters,
        imm \in UnitImm12, r1 \in UnitRegisters}
    \cup {<<"Jalr", r0, offs, r1>> :
        r0 \in UnitRegisters, offs \in UnitOffs12, r1 \in UnitRegisters}
    \cup {<<"Jal", r0, offs>> : r0 \in UnitRegisters, offs \in UnitOffs20}
    \cup {<<op, offs>> : op \in {"J", "Call"}, offs \in UnitOffs20}
    \cup {<<"Li", r0, imm>> : r0 \in UnitRegisters, imm \in UnitImm12}
    \cup {<<"Mv", r0, r1>> : r0 \in UnitRegisters, r1 \in UnitRegisters}
    \cup {<<"Ecall">>, <<"Ebreak">>, <<"Fence">>, <<"Ret">>}

\* One call of an Assembler method; ins is the word it emits as Fetch returns it from
\* the image.
CallAssembler ==
    /\ loc = "start"
    /\ \E d \in UnitCalls : \E code \in {Assemble(<<d>>)} :
          /\ ins' = AsLE32(code[1])
          /\ cout' = <<d>>
    /\ loc' = "assembled"
    /\ UNCHANGED <<cpu, isa, big, steps, asm, log>>

\* The operands given to encode::uimm20: 20-bit values, and values with bits above them.
UnitUimm20 ==
    {0, 1, \h12345, \hfffff, \h100000, \h12345678, Word(\h8000, 0), Word(\hffff, \hf000), -1}

\* encode::uimm20(u); ins is the field it returns.
CallEncodeUimm20 ==
    /\ loc = "start"
    /\ \E u \in UnitUimm20 :
          /\ ins' = encode_uimm20(u)
          /\ cout' = <<u>>
    /\ loc' = "encoded"
    /\ UNCHANGED <<cpu, isa, big, steps, asm, log>>

\* The words given to DecodeRv32: each of the 32 bits alone and each alone cleared, the
\* words of all zeros and all ones, 0xaaaaaaaa and 0x55555555, and instructions of the I,
\* S, B, J and U formats holding both ends of their immediate's range.
UnitRvWords ==
    {Shl32(1, i) : i \in 0..31}
    \cup {Xor32(-1, Shl32(1, i)) : i \in 0..31}
    \cup {0, -1, Word(\haaaa, \haaaa), Word(\h5555, \h5555)}
    \cup {RvI(imm, ra, 0, t0, \h13) : imm \in UnitImm12}
    \cup {RvS(imm, t0, sp, 2, \h23) : imm \in UnitImm12}
    \cup {RvB(offs, t0, t1, 1, \h63) : offs \in UnitOffs12}
    \cup {RvJ(offs, ra, \h6f) : offs \in UnitOffs20}
    \cup {RvU(u, t2, \h37) : u \in {Word(\hffff, \hf000), Word(\h8000, 0), \h1000}}

\* DecodeRv32 rv(w) and its five immediates; ins is the word, cout what they returned.
CallDecodeRv32 ==
    /\ loc = "start"
    /\ \E w \in UnitRvWords :
          /\ ins' = w
          /\ cout' = <<[I |-> Iimmediate(w), S |-> Simmediate(w), B |-> Bimmediate(w),
                        J |-> Jimmediate(w), U |-> Uimmediate(w)]>>
    /\ loc' = "decoded"
    /\ UNCHANGED <<cpu, isa, big, steps, asm, log>>

\* The RV32I base instructions as (mask, value, mnemonic), in the order of the manual's
\* instruction listing (The RISC-V Instruction Set Manual, volume I, chapter 24).
Rv32iListing ==
    <<  <<\h0000007f, \h00000037, "Lui">>,    <<\h0000007f, \h00000017, "Auipc">>,
        <<\h0000007f, \h0000006f, "Jal">>,    <<\h0000707f, \h00000067, "Jalr">>,
        <<\h0000707f, \h00000063, "Beq">>,    <<\h0000707f, \h00001063, "Bne">>,
        <<\h0000707f, \h00004063, "Blt">>,    <<\h0000707f, \h00005063, "Bge">>,
        <<\h0000707f, \h00006063, "Bltu">>,   <<\h0000707f, \h00007063, "Bgeu">>,
        <<\h0000707f, \h00000003, "Lb">>,     <<\h0000707f, \h00001003, "Lh">>,
        <<\h0000707f, \h00002003, "Lw">>,     <<\h0000707f, \h00004003, "Lbu">>,
        <<\h0000707f, \h00005003, "Lhu">>,    <<\h0000707f, \h00000023, "Sb">>,
        <<\h0000707f, \h00001023, "Sh">>,     <<\h0000707f, \h00002023, "Sw">>,
        <<\h0000707f, \h00000013, "Addi">>,   <<\h0000707f, \h00002013, "Slti">>,
        <<\h0000707f, \h00003013, "Sltiu">>,  <<\h0000707f, \h00004013, "Xori">>,
        <<\h0000707f, \h00006013, "Ori">>,    <<\h0000707f, \h00007013, "Andi">>,
        <<Word(\hfe00, \h707f), \h00001013, "Slli">>,
        <<Word(\hfe00, \h707f), \h00005013, "Srli">>,
        <<Word(\hfe00, \h707f), \h40005013, "Srai">>,
        <<Word(\hfe00, \h707f), \h00000033, "Add">>,
        <<Word(\hfe00, \h707f), \h40000033, "Sub">>,
        <<Word(\hfe00, \h707f), \h00001033, "Sll">>,
        <<Word(\hfe00, \h707f), \h00002033, "Slt">>,
        <<Word(\hfe00, \h707f), \h00003033, "Sltu">>,
        <<Word(\hfe00, \h707f), \h00004033, "Xor">>,
        <<Word(\hfe00, \h707f), \h00005033, "Srl">>,
        <<Word(\hfe00, \h707f), \h40005033, "Sra">>,
        <<Word(\hfe00, \h707f), \h00006033, "Or">>,
        <<Word(\hfe00, \h707f), \h00007033, "And">>,
        <<\h0000707f, \h0000000f, "Fence">>,
        <<-1, \h00000073, "Ecall">>,           <<-1, \h00100073, "Ebreak">>  >>

\* Bits placed in the fields an instruction's mask leaves free.
UnitFills == {0, -1, Word(\h0200, 0), Word(\h4000, 0), Word(\haaaa, \haaaa), Word(\h5555, \h5555)}

\* The words given to DispatchRv32i: every listed instruction with each filling of its
\* free fields, and every listed value with each filling of all its zero bits (which gives
\* register-register and shift words with other funct7 values, ecall and ebreak words
\* with register fields set, and the words 0 and 0xffffffff).
UnitDispatchWords ==
    {Or32(Rv32iListing[i][2], And32(f, Xor32(-1, Rv32iListing[i][1]))) :
        i \in DOMAIN Rv32iListing, f \in UnitFills}
    \cup {Or32(Rv32iListing[i][2], f) : i \in DOMAIN Rv32iListing, f \in UnitFills}
    \cup {0, \h00200073, \h02000033, \h0000007f}

\* DispatchRv32i(cpu, w) on a fresh cpu; ins is the word, cout names the method invoked.
CallDispatchRv32i ==
    /\ loc = "start"
    /\ \E w \in UnitDispatchWords, u \in UndefWords :
          /\ ins' = w
          /\ cpu' = DispatchRv32i(cpu, w, u)
          /\ cout' = <<Rv32iCall(w)>>
    /\ loc' = "rvdispatched"
    /\ UNCHANGED <<isa, big, steps, asm, log>>

\* Disassembler::regnames.
regnames ==
    <<"zero", "ra", "sp", "gp", "tp", "t0", "t1", "t2", "s0", "s1", "a0", "a1", "a2", "a3",
      "a4", "a5", "a6", "a7", "s2", "s3", "s4", "s5", "s6", "s7", "s8", "s9", "s10", "s11",
      "t3", "t4", "t5", "t6">>

\* The text a Disassembler method returns for the call d, as the pieces std::format joins:
\* the literal text before the first replacement field, then the values of the fields.
Disassembler(d) ==
    LET R(i) == regnames[d[i] + 1]
    IN  CASE d[1] = "Ecall" -> <<"ecall">>
          [] d[1] = "Ebreak" -> <<"ebreak">>
          [] d[1] = "Add" -> <<"add", R(2), R(3), R(4)>>
          [] d[1] = "Sub" -> <<"sub", R(2), R(3), R(4)>>
          [] d[1] = "Sll" -> <<"sll", R(2), R(3), R(4)>>
          [] d[1] = "Slt" -> <<"slt", R(2), R(3), R(4)>>
          [] d[1] = "Sltu" -> <<"sltu", R(2), R(3), R(4)>>
          [] d[1] = "Xor" -> <<"xor", R(2), R(3), R(4)>>
          [] d[1] = "Srl" -> <<"srl", R(2), R(3), R(4)>>
          [] d[1] = "Sra" -> <<"sra", R(2), R(3), R(4)>>
          [] d[1] = "Or" -> <<"or", R(2), R(3), R(4)>>
          [] d[1] = "And" -> <<"and", R(2), R(3), R(4)>>
          [] d[1] = "Slli" -> <<"slli", R(2), R(3), d[4]>>
          [] d[1] = "Srli" -> <<"srli", R(2), R(3), d[4]>>
          [] d[1] = "Srai" -> <<"srai", R(2), R(3), d[4]>>
          [] d[1] = "Beq" -> <<"beq", R(2), R(3), d[4]>>
          [] d[1] = "Bne" -> <<"bne", R(2), R(3), d[4]>>
          [] d[1] = "Blt" -> <<"blt", R(2), R(3), d[4]>>
          [] d[1] = "Bge" -> <<"bge", R(2), R(3), d[4]>>
          [] d[1] = "Bltu" -> <<"bltu", R(2), R(3), d[4]>>
          [] d[1] = "Bgeu" -> <<"bgeu", R(2), R(3), d[4]>>
          [] d[1] = "Addi" ->
                IF d[3] = 0 THEN <<"li", R(2), d[4]>>
                ELSE IF d[4] = 0 THEN <<"mv", R(2), R(3)>>
                ELSE <<"addi", R(2), R(3), d[4]>>
          [] d[1] = "Slti" -> <<"slti", R(2), R(3), d[4]>>
          [] d[1] = "Sltiu" -> <<"sltiu", R(2), R(3), d[4]>>
          [] d[1] = "Xori" -> <<"xori", R(2), R(3), d[4]>>
          [] d[1] = "Ori" -> <<"ori", R(2), R(3), d[4]>>
          [] d[1] = "Andi" -> <<"andi", R(2), R(3), d[4]>>
          [] d[1] = "Lb" -> <<"lb", R(2), d[3], R(4)>>
          [] d[1] = "Lbu" -> <<"lw", R(2), d[3], R(4)>>
          [] d[1] = "Lh" -> <<"lh", R(2), d[3], R(4)>>
          [] d[1] = "Lhu" -> <<"lhu", R(2), d[3], R(4)>>
          [] d[1] = "Lw" -> <<"lw", R(2), d[3], R(4)>>
          [] d[1] = "Sb" -> <<"sb", R(2), d[3], R(4)>>
          [] d[1] = "Sh" -> <<"sh", R(2), d[3], R(4)>>
          [] d[1] = "Sw" -> <<"sw", R(2), d[3], R(4)>>
          [] d[1] = "Fence" -> <<"fence">>
          [] d[1] = "Jalr" ->
                IF d[2] = zero /\ d[4] = ra /\ d[3] = 0 THEN <<"ret">>
                ELSE <<"jalr", R(2), d[3], R(4)>>
          [] d[1] = "Jal" -> IF d[2] = ra THEN <<"jal", d[3]>> ELSE <<"jal", R(2), d[3]>>
          [] d[1] = "Lui" -> <<"lui", R(2), d[3]>>
          [] d[1] = "Auipc" -> <<"auipc", R(2), d[3]>>
          [] d[1] = "J" -> <<"j", d[2]>>
          [] d[1] = "Call" -> <<"call", d[2]>>
          [] d[1] = "Ret" -> <<"ret">>
          [] d[1] = "Li" -> <<"li", R(2), d[3]>>
          [] d[1] = "Mv" -> <<"mv", R(2), R(3)>>
          [] d[1] = "Illegal" -> <<"illegal", d[2]>>

\* The calls given to the Disassembler: those given to the Assembler, and Lui, Auipc and
\* Illegal.
DisassemblerCalls ==
    UnitCalls
        \cup {<<op, r0, u>> : op \in {"Lui", "Auipc"}, r0 \in UnitRegisters, u \in UnitUimm20}
        \cup {<<"Illegal", w>> : w \in {0, \h7f, -1}}

\* One call of a Disassembler method; cout is the call and the text returned.
CallDisassembler ==
    /\ loc = "start"
    /\ \E d \in DisassemblerCalls : cout' = <<d, Disassembler(d)>>
    /\ loc' = "disassembled"
    /\ UNCHANGED <<cpu, ins, isa, big, steps, asm, log>>

UnitNext ==
    \/ CallWrite32 \/ CallWrite16 \/ CallRead32 \/ CallRead16 \/ CallAssembler
    \/ CallEncodeUimm20 \/ CallDecodeRv32 \/ CallDispatchRv32i \/ CallDisassembler

UnitSpec == UnitInit /\ [][UnitNext]_vars

\* C13: for every address a inside the memory, aligned or not, and every value v,
\* Write32(a, v) and Write16(a, v) leave v's bytes at a in little-endian order and no
\* other byte changed, and Read32 and Read16 at a then return v, the little-endian
\* concatenation of the bytes there.
C13_ReadAfterWrite ==
    [][/\ loc' = "written32" =>
            cpu'.memory = Stored(cpu.memory, cout'[1].a0, 4, cout'[1].a1)
       /\ loc' = "written16" =>
            cpu'.memory = Stored(cpu.memory, cout'[1].a0, 2, cout'[1].a1)
       /\ loc' = "read32" =>
            ins' = cout[1].a1 /\ ins' = LittleEndianWord(cpu.memory, cout[1].a0)
       /\ loc' = "read16" =>
            ins' = cout[1].a1 /\ ins' = LittleEndianHalf(cpu.memory, cout[1].a0)
      ]_vars

\* On a big-endian host Read16 after Write16(5, 0x83f4) has returned 0.
C13_Witness ==
    /\ loc = "read16"
    /\ big
    /\ cout[1].a0 = 5 /\ cout[1].a1 = 33780
    /\ ins = 0

RegRegOpcodes ==
    {Opcode.Add, Opcode.Sub, Opcode.Sll, Opcode.Slt, Opcode.Sltu, Opcode.Xor, Opcode.Srl,
     Opcode.Or, Opcode.And}

\* The reference result of a register-register instruction on the values a and b of
\* x[r1] and x[r2].
RegRegResult(opcode, a, b) ==
    CASE opcode = Opcode.Add -> Add32(a, b)
      [] opcode = Opcode.Sub -> Sub32(a, b)
      [] opcode = Opcode.Sll -> Shl32(a, b % 32)
      [] opcode = Opcode.Slt -> IF a < b THEN 1 ELSE 0
      [] opcode = Opcode.Sltu -> IF UnsignedLess(a, b) THEN 1 ELSE 0
      [] opcode = Opcode.Xor -> Xor32(a, b)
      [] opcode = Opcode.Srl -> Lsr32(a, b % 32)
      [] opcode = Opcode.Or -> Or32(a, b)
      [] opcode = Opcode.And -> And32(a, b)

\* C14: Add and Sub compute modulo 2^32 (0xffffffff + 1 = 0), Slt compares x[r1] and
\* x[r2] as signed and Sltu as unsigned values (0xffffffff against 0 gives 1 and 0),
\* Sll and Srl shift logically by x[r2] mod 32, and Xor, Or and And are bitwise.
C14_RegisterRegister ==
    [][\A opcode \in RegRegOpcodes :
            AtOwl(opcode) =>
                LET a == cpu.x[decode_r1(ins)]
                    b == cpu.x[decode_r2(ins)]
                    result == cpu'.x[decode_r0(ins)]
                IN  /\ result = Written(decode_r0(ins), RegRegResult(opcode, a, b))
                    /\ decode_r0(ins) # 0 /\ a = -1 /\ b = 1 /\ opcode = Opcode.Add => result = 0
                    /\ decode_r0(ins) # 0 /\ a = -1 /\ b = 0 /\ opcode = Opcode.Slt => result = 1
                    /\ decode_r0(ins) # 0 /\ a = -1 /\ b = 0 /\ opcode = Opcode.Sltu => result = 0
      ]_vars

\* add t2, t0, t1 has run with x[t0] = 0xffffffff and x[t1] = 1 and left 0 in t2.
C14_Witness ==
    /\ AfterOwl(Opcode.Add)
    /\ decode_r0(ins) = t2 /\ decode_r1(ins) = t0 /\ decode_r2(ins) = t1
    /\ cpu.x[t0] = -1 /\ cpu.x[t1] = 1
    /\ cpu.x[t2] = 0

\* The run is about to dispatch / has just completed an ecall, of either instruction set.
AtEcall ==
    /\ loc = "dispatch"
    /\ \/ isa = "owl" /\ And32(ins, \h7f) = Opcode.Ecall
       \/ isa = "rv32i" /\ ins = \h00000073

AfterEcall ==
    /\ loc = "loop" /\ steps > 0
    /\ \/ isa = "owl" /\ And32(ins, \h7f) = Opcode.Ecall
       \/ isa = "rv32i" /\ ins = \h00000073

\* C15: Ecall with x[a7] = 0 (Exit) sets done and reports x[a0]; with x[a7] = 1
\* (PrintFib) it reports the pair (x[a0], x[a1]) and leaves done false; in both cases
\* no register, memory byte, pc or next_pc changes.
C15_EcallExitPrintFib ==
    [][AtEcall /\ cpu.x[a7] \in {Exit, PrintFib} =>
            /\ cpu'.x = cpu.x
            /\ cpu'.memory = cpu.memory
            /\ cpu'.nextPc = cpu.nextPc /\ cpu'.pc = cpu.pc
            /\ cpu.x[a7] = Exit =>
                  /\ cpu'.done
                  /\ cout' = Append(cout, [call |-> "Exit", a0 |-> cpu.x[a0], a1 |-> 0])
            /\ cpu.x[a7] = PrintFib =>
                  /\ ~cpu'.done
                  /\ cout' = Append(cout, [call |-> "PrintFib", a0 |-> cpu.x[a0], a1 |-> cpu.x[a1]])
      ]_vars

\* PrintFib has reported (7, 13) and the run goes on.
C15_Witness ==
    /\ AfterEcall
    /\ cpu.x[a7] = PrintFib /\ cpu.x[a0] = 7 /\ cpu.x[a1] = 13
    /\ cout = <<[call |-> "PrintFib", a0 |-> 7, a1 |-> 13]>>
    /\ ~cpu.done

\* C16: Ecall with a selector in x[a7] other than 0 (Exit) and 1 (PrintFib) reports an
\* error and halts the VM: done becomes true and one report is written, which is not
\* an Exit and not a PrintFib report.
C16_EcallUnknownSelector ==
    [][AtEcall /\ cpu.x[a7] \notin {Exit, PrintFib} =>
            /\ cpu'.done
            /\ Len(cout') = Len(cout) + 1
            /\ cout'[Len(cout')].call \notin {"Exit", "PrintFib"}
      ]_vars

\* An ecall with x[a7] = 2 has reported nothing and the run has gone on to the next
\* instruction.
C16_Witness ==
    /\ AfterOwl(Opcode.Li)
    /\ steps = 5
    /\ cpu.x[a7] = 2 /\ cpu.x[t0] = 1
    /\ cout = <<>>
    /\ ~cpu.done

\* C17: every Owl word whose low 7 bits are 0 or above the last opcode (Mv = 45) goes
\* to Illegal, which sets done and changes no register, no memory byte, pc or next_pc;
\* so a VM over an image whose first word is 0 halts after one fetch, with pc = 0 and
\* every register 0 except x[sp], the size of the memory in bytes.
C17_Illegal ==
    [][/\ loc = "dispatch" /\ isa = "owl"
          /\ (And32(ins, \h7f) = Opcode.Illegal \/ And32(ins, \h7f) > Opcode.Mv) =>
            /\ cpu'.done
            /\ cpu'.x = cpu.x
            /\ cpu'.memory = cpu.memory
            /\ cpu'.pc = cpu.pc /\ cpu'.nextPc = cpu.nextPc
       /\ isa = "owl" /\ steps = 1 /\ LittleEndianWord(cpu.memory, 0) = 0 =>
            /\ loc = "dispatch" =>
                  /\ cpu'.done
                  /\ cpu'.pc = 0
                  /\ cpu'.x = [r \in 0..31 |-> IF r = sp THEN MemSize(cpu.memory) ELSE 0]
            /\ loc = "loop" => loc' = "returned" /\ cpu' = cpu
      ]_vars

\* The run over an all-zero image has returned after one fetch.
C17_Witness ==
    /\ loc = "returned"
    /\ isa = "owl"
    /\ steps = 1
    /\ \A a \in DOMAIN cpu.memory : cpu.memory[a] = 0
    /\ cpu.done
    /\ cpu.pc = 0
    /\ cpu.x[sp] = MemSize(cpu.memory)

\* C18: a load or store whose bytes, from the effective address x[r1] + imm12 on, are
\* not all inside the memory sets done (and leaves the memory as it is).
C18_OutsideHalts ==
    [][\A opcode \in LoadOpcodes \cup StoreOpcodes :
            AtOwl(opcode) /\ ~Inside(cpu.memory, EffectiveAddress(cpu), Width(opcode)) =>
                cpu'.done /\ cpu'.memory = cpu.memory
      ]_vars

\* lw t0, 0(sp) has read the four bytes after the end of the memory into t0, and the
\* run goes on.
C18_Witness ==
    /\ AfterOwl(Opcode.Lw)
    /\ decode_r0(ins) = t0 /\ decode_r1(ins) = sp /\ decode_imm12(ins) = 0
    /\ cpu.x[sp] = MemSize(cpu.memory)
    /\ cpu.x[t0] = -1
    /\ ~cpu.done

\* C19: for every mnemonic but Lui, Auipc and Illegal, the word the Assembler method
\* emits for operands inside the field ranges is dispatched by DispatchOwl to the
\* method of the same name, with the same operand values in the same positions.
C19_AssembleDispatch == loc = "assembled" => OwlCall(ins) = cout[1]

\* Bge(x31, x17, -4096) has been assembled and is dispatched as Bge(31, 17, -4096).
C19_Witness ==
    /\ loc = "assembled"
    /\ cout[1] = <<"Bge", 31, 17, -4096>>
    /\ And32(ins, \h7f) = Opcode.Bge
    /\ decode_r0(ins) = 31 /\ decode_r1(ins) = 17 /\ decode_offs12(ins) = -4096

C21_LuiAuipc ==
    [][/\ AtOwl(Opcode.Lui) =>
            cpu'.x[decode_r0(ins)] = Written(decode_r0(ins), decode_uimm20(ins))
       /\ AtOwl(Opcode.Auipc) =>
            cpu'.x[decode_r0(ins)] = Written(decode_r0(ins), Add32(cpu.pc, decode_uimm20(ins)))
       /\ loc = "dispatch" /\ isa = "rv32i" /\ And32(ins, MaskOp) = \h37 =>
            cpu'.x[Rd(ins)] = Written(Rd(ins), Uimmediate(ins))
       /\ loc = "dispatch" /\ isa = "rv32i" /\ And32(ins, MaskOp) = \h17 =>
            cpu'.x[Rd(ins)] = Written(Rd(ins), Add32(cpu.pc, Uimmediate(ins)))
      ]_vars

\* auipc t2, 0xfffff has run at address 4 and left 0xfffff004 in t2.
C21_Witness ==
    /\ AfterOwl(Opcode.Auipc)
    /\ cpu.pc = 4
    /\ decode_r0(ins) = t2 /\ decode_uimm20(ins) = Word(\hffff, \hf000)
    /\ cpu.x[t2] = Word(\hffff, \hf004)

---------------------------------------------------------------------------
(* The Assembler used by a caller: a session of calls on one Assembler object. *)
(* asm is the object, loc the method called last, cout that call's arguments   *)
(* (after Code(), what it returned or threw), ins the value Hi, Lo or          *)
(* MakeLabel returned and steps the number of instructions emitted so far.     *)

\* Labels a session makes, instructions it emits, and the words a session may emit
\* before them, which put the instructions at 0xffc and 0x1000.
MaxLabels == 2

MaxCode == 2

PadWords == 1023

AsmInit ==
    /\ big \in BOOLEAN
    /\ isa = "owl"
    /\ cpu = OwlCpu(UnitImage)
    /\ ins = 0
    /\ loc = "start"
    /\ cout = <<>>
    /\ steps = 0
    /\ asm = NewAssembler
    /\ log = <<>>

\* The labels made so far.
AsmLabels == 0..(Len(asm.labels_) - 1)

\* Label l = a.MakeLabel();
CallMakeLabel ==
    /\ loc # "Code"
    /\ Len(asm.labels_) < MaxLabels
    /\ asm' = MakeLabel(asm)
    /\ ins' = Len(asm.labels_)
    /\ cout' = <<>>
    /\ loc' = "MakeLabel"
    /\ UNCHANGED <<cpu, isa, big, steps, log>>

\* a.BindLabel(l); for a label that has no address yet.
CallBindLabel ==
    /\ loc # "Code"
    /\ \E label \in AsmLabels :
          /\ AddressOf(asm, label) = badAddress
          /\ asm' = BindLabel(asm, label)
          /\ cout' = <<[label |-> label]>>
    /\ loc' = "BindLabel"
    /\ UNCHANGED <<cpu, ins, isa, big, steps, log>>

\* a.Bne(t0, t1, l); or a.Bgeu(x31, a7, l);
CallBranchLabel ==
    /\ loc # "Code"
    /\ steps < MaxCode
    /\ \E d \in {<<Opcode.Bne, t0, t1>>, <<Opcode.Bgeu, 31, a7>>}, label \in AsmLabels :
          /\ asm' = BranchLabel(asm, d[1], d[2], d[3], label)
          /\ cout' = <<[opcode |-> d[1], r0 |-> d[2], r1 |-> d[3], label |-> label]>>
    /\ loc' = "Branch"
    /\ steps' = steps + 1
    /\ UNCHANGED <<cpu, ins, isa, big, log>>

\* a.J(l); or a.Call(l);
CallJumpLabel ==
    /\ loc # "Code"
    /\ steps < MaxCode
    /\ \E opcode \in {Opcode.J, Opcode.Call}, label \in AsmLabels :
          /\ asm' = JumpLabel(asm, opcode, label)
          /\ cout' = <<[opcode |-> opcode, label |-> label]>>
    /\ loc' = "Jump"
    /\ steps' = steps + 1
    /\ UNCHANGED <<cpu, ins, isa, big, log>>

\* a.Lui(t2, a.Hi(l)); ins is what Hi returned.
CallLuiHi ==
    /\ loc # "Code"
    /\ steps < MaxCode
    /\ \E label \in AsmLabels :
          /\ asm' = AsmLui(HiAssembler(asm, label), t2, HiValue(asm, label))
          /\ ins' = HiValue(asm, label)
          /\ cout' = <<[r0 |-> t2, label |-> label]>>
    /\ loc' = "Hi"
    /\ steps' = steps + 1
    /\ UNCHANGED <<cpu, isa, big, log>>

\* a.Addi(t2, t2, a.Lo(l)); ins is what Lo returned.
CallAddiLo ==
    /\ loc # "Code"
    /\ steps < MaxCode
    /\ \E label \in AsmLabels :
          /\ asm' = AsmRegImm(LoAssembler(asm, label), Opcode.Addi, t2, t2, LoValue(asm, label))
          /\ ins' = LoValue(asm, label)
          /\ cout' = <<[r0 |-> t2, label |-> label]>>
    /\ loc' = "Lo"
    /\ steps' = steps + 1
    /\ UNCHANGED <<cpu, isa, big, log>>

\* a.Ebreak();
CallEbreak ==
    /\ loc # "Code"
    /\ steps < MaxCode
    /\ asm' = AsmEbreak(asm)
    /\ cout' = <<>>
    /\ loc' = "Ebreak"
    /\ steps' = steps + 1
    /\ UNCHANGED <<cpu, ins, isa, big, log>>

\* for (i = 0; i < PadWords; i++) a.Word(0); before any instruction is emitted.
CallWords ==
    /\ loc # "Code"
    /\ asm.code_ = <<>>
    /\ asm' = [asm EXCEPT !.code_ = [i \in 1..PadWords |-> AsLE32(0)],
                          !.current_ = 4 * PadWords]
    /\ cout' = <<>>
    /\ loc' = "Word"
    /\ UNCHANGED <<cpu, ins, isa, big, steps, log>>

\* a.Code(); cout is the vector returned or the exception thrown, and the session ends.
CallCode ==
    /\ loc # "Code"
    /\ cout' = <<Code(asm)>>
    /\ loc' = "Code"
    /\ UNCHANGED <<cpu, ins, isa, big, steps, asm, log>>

AsmNext ==
    \/ CallMakeLabel \/ CallBindLabel \/ CallBranchLabel \/ CallJumpLabel
    \/ CallLuiHi \/ CallAddiLo \/ CallEbreak \/ CallWords \/ CallCode

AsmSpec == AsmInit /\ [][AsmNext]_vars

\* C22: a branch or jump emitted through the Label overload when the label already has
\* an address A, from current offset C, appends exactly the word the numeric overload
\* emits for the offset A - C, and records no fixup.
C22_BoundLabel ==
    [][/\ loc' = "Branch" /\ AddressOf(asm, cout'[1].label) # badAddress =>
            LET d == cout'[1]
                offset == AddressOf(asm, d.label) - Current(asm)
            IN  /\ asm'.code_ =
                        Append(asm.code_, Branch(NewAssembler, d.opcode, d.r0, d.r1, offset).code_[1])
                /\ asm'.fixups_ = asm.fixups_
       /\ loc' = "Jump" /\ AddressOf(asm, cout'[1].label) # badAddress =>
            LET d == cout'[1]
                offset == AddressOf(asm, d.label) - Current(asm)
            IN  /\ asm'.code_ = Append(asm.code_, Jump(NewAssembler, d.opcode, offset).code_[1])
                /\ asm'.fixups_ = asm.fixups_
      ]_vars

\* Bgeu(x31, a7, l) has been emitted at 0x1000 for a label bound at 0xffc: the word
\* holds the offset -4, and no fixup is pending.
C22_Witness ==
    /\ loc = "Branch"
    /\ cout[1].opcode = Opcode.Bgeu
    /\ AddressOf(asm, cout[1].label) = 4 * PadWords
    /\ Current(asm) = 4 * PadWords + 8
    /\ decode_offs12(AsLE32(asm.code_[PadWords + 2])) = -4
    /\ asm.fixups_ = <<>>

\* The word at byte address t of the assembler's code, as the VM fetches it.
WordAt(a, t) == AsLE32(a.code_[(t \div 4) + 1])

\* C23: a branch or jump emitted at offset T for a label without an address is the
\* word of the numeric overload for offset 0, its offset field zero, and a fixup
\* (T, kind) is recorded; when BindLabel then binds the label at A, the word at T is the
\* word the numeric overload emits for A - T with the placeholder's opcode and
\* registers (A - T inside the field's range), and its opcode and register bits are
\* those of the placeholder.
C23_Fixup ==
    [][/\ loc' = "Branch" /\ AddressOf(asm, cout'[1].label) = badAddress =>
            LET d == cout'[1]
            IN  /\ asm'.code_ =
                        Append(asm.code_, Branch(NewAssembler, d.opcode, d.r0, d.r1, 0).code_[1])
                /\ decode_offs12(WordAt(asm', Current(asm))) = 0
                /\ Len(asm'.fixups_) = Len(asm.fixups_) + 1
                /\ \E i \in DOMAIN asm'.fixups_ :
                      asm'.fixups_[i] = [id |-> d.label, target |-> Current(asm), type |-> "offs12"]
       /\ loc' = "Jump" /\ AddressOf(asm, cout'[1].label) = badAddress =>
            LET d == cout'[1]
            IN  /\ asm'.code_ = Append(asm.code_, Jump(NewAssembler, d.opcode, 0).code_[1])
                /\ decode_offs20(WordAt(asm', Current(asm))) = 0
                /\ Len(asm'.fixups_) = Len(asm.fixups_) + 1
                /\ \E i \in DOMAIN asm'.fixups_ :
                      asm'.fixups_[i] = [id |-> d.label, target |-> Current(asm), type |-> "offs20"]
       /\ loc' = "BindLabel" =>
            \A i \in DOMAIN asm.fixups_ :
                LET f == asm.fixups_[i]
                    offset == Current(asm) - f.target
                    before == WordAt(asm, f.target)
                    after == WordAt(asm', f.target)
                IN  /\ f.id = cout'[1].label /\ f.type = "offs12" =>
                        /\ offset \in -4096..4094 =>
                              asm'.code_[(f.target \div 4) + 1] =
                                  Branch(NewAssembler, And32(before, \h7f), decode_r0(before),
                                         decode_r1(before), offset).code_[1]
                        /\ And32(after, \h000fffff) = And32(before, \h000fffff)
                    /\ f.id = cout'[1].label /\ f.type = "offs20" =>
                        /\ offset \in -1048576..1048574 =>
                              asm'.code_[(f.target \div 4) + 1] =
                                  Jump(NewAssembler, And32(before, \h7f), offset).code_[1]
                        /\ And32(after, \h00000fff) = And32(before, \h00000fff)
      ]_vars

\* On a big-endian host Bne(t0, t1, l) was emitted at 0 and l bound at 8: the word at 0
\* is now fetched as 0x00004200, whose opcode is Illegal; bne t0, t1, 8 is 0x00406291.
C23_Witness ==
    /\ loc = "BindLabel"
    /\ big
    /\ Current(asm) = 8
    /\ AddressOf(asm, cout[1].label) = 8
    /\ WordAt(asm, 0) = \h00004200
    /\ AsLE32(Branch(NewAssembler, Opcode.Bne, t0, t1, 8).code_[1]) = \h00406291

\* The ids of the labels that have a pending fixup.
Pending(a) == {a.fixups_[i].id : i \in DOMAIN a.fixups_}

\* C24: after any session of MakeLabel, emitting, Hi, Lo and BindLabel calls, Code()
\* returns the code buffer exactly when no fixup is pending and otherwise throws the
\* "unbound labels" error and yields no buffer.  A fixup is pending only for a label
\* without an address, and only a call that refers to a label adds one for it: when
\* every label referred to has been bound Code() succeeds, and a label that was made
\* and never referred to does not make it fail.
C24_Code ==
    [][/\ loc' = "Code" =>
            /\ cout'[1].threw <=> asm.fixups_ # <<>>
            /\ ~cout'[1].threw => cout'[1].value = asm.code_
            /\ cout'[1].threw => "value" \notin DOMAIN cout'[1]
            /\ cout'[1].threw => cout'[1].what = "There are unbound labels."
            /\ asm' = asm
       /\ \A id \in Pending(asm') : AddressOf(asm', id) = badAddress
       /\ Pending(asm') \subseteq
            Pending(asm) \cup (IF loc' \in {"Branch", "Jump", "Hi", "Lo"} THEN {cout'[1].label} ELSE {})
      ]_vars

\* Code() has returned a buffer of two words: label 1 was referred to by the first
\* instruction and bound at 4, label 0 was made and never referred to or bound.
C24_Witness ==
    /\ loc = "Code"
    /\ ~big
    /\ ~cout[1].threw
    /\ Len(cout[1].value) = 2
    /\ asm.labels_ = <<badAddress, 4>>
    /\ And32(cout[1].value[1], \h7f) = Opcode.Call /\ decode_offs20(cout[1].value[1]) = 4

\* The indices in code_ of the words that the pending fixups of a label point at.
Targets(a, label) ==
    {(a.fixups_[i].target \div 4) + 1 : i \in {j \in DOMAIN a.fixups_ : a.fixups_[j].id = label}}

\* C25: BindLabel(L) gives L the current address and removes every pending fixup of
\* L, whatever other labels still have pending fixups; it removes no fixup of another
\* label, keeps their order, and changes no word of the code but the words L's fixups
\* point at.
C25_BindLabelFrame ==
    [][loc' = "BindLabel" =>
            LET label == cout'[1].label
            IN  /\ AddressOf(asm', label) = Current(asm)
                /\ asm'.fixups_ = SelectSeq(asm.fixups_, LAMBDA f : f.id # label)
                /\ Len(asm'.code_) = Len(asm.code_)
                /\ \A i \in DOMAIN asm.code_ :
                      i \notin Targets(asm, label) => asm'.code_[i] = asm.code_[i]
                /\ \A other \in AsmLabels \ {label} : AddressOf(asm', other) = AddressOf(asm, other)
                /\ Current(asm') = Current(asm)
      ]_vars

\* Label 0 has been bound at 8 after Bne(t0, t1, 0) at 0 and Call(1) at 4: the branch
\* holds the offset 8, and the call's fixup for label 1 is still pending, its word the
\* placeholder.
C25_Witness ==
    /\ loc = "BindLabel"
    /\ ~big
    /\ cout[1].label = 0
    /\ asm.labels_ = <<8, badAddress>>
    /\ And32(asm.code_[1], \h7f) = Opcode.Bne /\ decode_offs12(asm.code_[1]) = 8
    /\ asm.fixups_ = <<[id |-> 1, target |-> 4, type |-> "offs20"]>>
    /\ asm.code_[2] = Opcode.Call

\* C26: for a label with address A, Hi returns A >> 12 and Lo returns A & 0xfff and
\* neither records a fixup; for a label without an address each returns 0 and records
\* a hi20 or lo12 fixup at the current offset; and after BindLabel the words emitted by
\* Lui(r, Hi(L)) and Addi(r, r, Lo(L)) are the words the same calls emit when L already
\* has that address.
C26_HiLo ==
    [][/\ loc' = "Hi" =>
            LET label == cout'[1].label
                address == AddressOf(asm, label)
            IN  IF address # badAddress
                THEN ins' = address \div 4096 /\ asm'.fixups_ = asm.fixups_
                ELSE /\ ins' = 0
                     /\ Len(asm'.fixups_) = Len(asm.fixups_) + 1
                     /\ \E i \in DOMAIN asm'.fixups_ :
                           asm'.fixups_[i] = [id |-> label, target |-> Current(asm), type |-> "hi20"]
       /\ loc' = "Lo" =>
            LET label == cout'[1].label
                address == AddressOf(asm, label)
            IN  IF address # badAddress
                THEN ins' = address % 4096 /\ asm'.fixups_ = asm.fixups_
                ELSE /\ ins' = 0
                     /\ Len(asm'.fixups_) = Len(asm.fixups_) + 1
                     /\ \E i \in DOMAIN asm'.fixups_ :
                           asm'.fixups_[i] = [id |-> label, target |-> Current(asm), type |-> "lo12"]
       /\ loc' = "BindLabel" =>
            \A i \in DOMAIN asm.fixups_ :
                LET f == asm.fixups_[i]
                    address == Current(asm)
                    before == WordAt(asm, f.target)
                IN  /\ f.id = cout'[1].label /\ f.type = "hi20" =>
                        asm'.code_[(f.target \div 4) + 1] =
                            AsmLui(NewAssembler, decode_r0(before), address \div 4096).code_[1]
                    /\ f.id = cout'[1].label /\ f.type = "lo12" =>
                        asm'.code_[(f.target \div 4) + 1] =
                            AsmRegImm(NewAssembler, Opcode.Addi, decode_r0(before),
                                      decode_r1(before), address % 4096).code_[1]
      ]_vars

\* On a big-endian host Lui(t2, Hi(l)) was emitted at 0xffc and l bound at 0x1000: the
\* word at 0xffc is now fetched as 0x00100000, whose opcode is Illegal; lui t2, 1 is
\* 0x000013a7.
C26_Witness ==
    /\ loc = "BindLabel"
    /\ big
    /\ Current(asm) = 4 * PadWords + 4
    /\ AddressOf(asm, cout[1].label) = 4 * PadWords + 4
    /\ WordAt(asm, 4 * PadWords) = \h00100000
    /\ AsLE32(AsmLui(NewAssembler, t2, 1).code_[1]) = \h000013a7

---------------------------------------------------------------------------
(* The RV32I immediates (The RISC-V Instruction Set Manual, volume I, 2.3) *)
(* written as sums of instruction bits, the sign bit weighing negative.    *)

\* Bits lo .. lo + n - 1 of w as an unsigned number (lo + n <= 31).
Bits(w, lo, n) == (w \div (2 ^ lo)) % (2 ^ n)

StandardI(w) == Bits(w, 20, 11) - 2048 * Bit(w, 31)

StandardS(w) == Bits(w, 7, 5) + 32 * Bits(w, 25, 6) - 2048 * Bit(w, 31)

StandardB(w) ==
    2 * Bits(w, 8, 4) + 32 * Bits(w, 25, 6) + 2048 * Bit(w, 7) - 4096 * Bit(w, 31)

StandardJ(w) ==
    2 * Bits(w, 21, 10) + 2048 * Bit(w, 20) + 4096 * Bits(w, 12, 8) - 1048576 * Bit(w, 31)

StandardU(w) == w - (w % 4096)

\* C27: for every word, DecodeRv32's Iimmediate, Simmediate, Bimmediate, Jimmediate and
\* Uimmediate are the standard RV32I immediates: I is bits 31:20 sign-extended, S is bits
\* 31:25 and 11:7 sign-extended, B and J are reassembled from their scattered bits,
\* sign-extended from bit 31 and even, and U is the word with its low 12 bits cleared.
C27_Immediates ==
    loc = "decoded" =>
        /\ cout[1].I = StandardI(ins)
        /\ cout[1].S = StandardS(ins)
        /\ cout[1].B = StandardB(ins)
        /\ cout[1].J = StandardJ(ins)
        /\ cout[1].U = StandardU(ins)
        /\ cout[1].U = And32(ins, Word(\hffff, \hf000))
        /\ cout[1].B % 2 = 0
        /\ cout[1].J % 2 = 0

\* A word with bit 31 set and scattered immediate bits has been decoded: the B
\* immediate -4096 of a bne, whose I, S and J immediates are negative too.
C27_Witness ==
    /\ loc = "decoded"
    /\ ins = RvB(-4096, t0, t1, 1, \h63)
    /\ cout[1].B = -4096
    /\ cout[1].S < 0
    /\ cout[1].J < 0

---------------------------------------------------------------------------
(* DispatchRv32i against the instruction listing.                          *)

\* The listed instructions a word matches under one mask.
Matching(w, mask) ==
    {Rv32iListing[i][3] : i \in {j \in DOMAIN Rv32iListing :
        Rv32iListing[j][1] = mask /\ And32(w, mask) = Rv32iListing[j][2]}}

\* The masks in the order the dispatcher tries them: the whole word, 0xfe00707f,
\* 0x0000707f, 0x0000007f.
SwitchOrder == <<-1, Word(\hfe00, \h707f), \h0000707f, \h0000007f>>

\* The methods of the first switch in that order with a matching case; none if no
\* switch has one.
FirstMatching(w) ==
    IF \A k \in DOMAIN SwitchOrder : Matching(w, SwitchOrder[k]) = {}
    THEN {}
    ELSE Matching(w, SwitchOrder[CHOOSE k \in DOMAIN SwitchOrder :
             /\ Matching(w, SwitchOrder[k]) # {}
             /\ \A m \in 1..(k - 1) : Matching(w, SwitchOrder[m]) = {}])

\* C28: DispatchRv32i invokes exactly one visitor method per word: the case of the first
\* switch that matches, trying the whole word, then word & 0xfe00707f, then word &
\* 0x0000707f, then word & 0x0000007f; a word matching none (the zero word, a
\* register-register word whose funct7 is neither 0x00 nor 0x20) invokes Illegal, which
\* halts the cpu, and no other method but Ecall and Ebreak does.
C28_Dispatch ==
    loc = "rvdispatched" =>
        /\ Cardinality(FirstMatching(ins)) <= 1
        /\ FirstMatching(ins) = {} => cout[1] = "Illegal"
        /\ FirstMatching(ins) # {} => cout[1] \in FirstMatching(ins)
        /\ cout[1] = "Illegal" => cpu.done
        /\ cout[1] \notin {"Illegal", "Ecall", "Ebreak"} => ~cpu.done
        /\ ins \in {0, \h02000033} => cout[1] = "Illegal"

\* A register-register word whose funct7 is 0x01 has been dispatched: the second switch
\* has no case for it, the third and fourth have none for opcode 0x33, and Illegal has
\* halted the cpu.
C28_Witness ==
    /\ loc = "rvdispatched"
    /\ ins = \h02000033
    /\ And32(ins, \h0000707f) = \h00000033
    /\ cout[1] = "Illegal"
    /\ cpu.done

---------------------------------------------------------------------------
(* main(): the built-in RV32I image run by RunRv32i, transcoded by         *)
(* Rv32iToOwl and run by Run.  cpu is the OwlCpu of the run in progress,   *)
(* ins the word it fetched last, cout what that run has written, steps its *)
(* loop iterations, log what each finished run wrote, asm the assembler    *)
(* Rv32iToOwl used.  One step of the model is a stretch of a run loop: its *)
(* iterations up to and including the next Ecall.                          *)

\* main: constexpr size_t memorySize = 4096;
memorySize == 4096

\* Runs of each program main makes (the source makes 1'000'000 of each).
MaxAttempts == 2

\* Loop iterations a run of main may start.
MaxMainSteps == 6000

\* A stretch is at most 2 ^ StretchLog iterations long.
StretchLog == 9

\* The bytes of LoadRv32iImage's array as little-endian words: 7 words of code at 0x00,
\* zeros up to 0x100, 21 words of code at 0x100.
FibCode ==
    <<\h00000513, \h00000593, \h00000613, \h0f4000ef, \h00000513, \h00000893, \h00000073>>
    \o [i \in 1..57 |-> 0]
    \o <<\h00000613, \h00200693, \h00100713, \h03000793, \h00060593, \h02d66263, \h00000513,
         \h00100593, \h00060813, \h00058893, Word(\hfff8, \h0813), \h00b505b3, \h00088513,
         Word(\hff07, \h68e3), \h00100893, \h00060513, \h00000073, \h00160613,
         Word(\hfcf6, \h14e3), \h00000513, \h00008067>>

\* The span LoadRv32iImage returns: the array's bytes seen as host words.
LoadRv32iImage == LoadedLE(FibCode)

\* std::ranges::copy(code, image.begin()) on the bytes of the image.
CopyInto(memory, code) ==
    ByValue(LAMBDA m, c :
                [addr \in DOMAIN m |->
                    IF addr \div 4 < Len(c) THEN HostBytes32(c[(addr \div 4) + 1])[(addr % 4) + 1]
                    ELSE m[addr]],
            memory, code)

\* Whether a fetched word is dispatched to Ecall.
IsEcall(set, w) == IF set = "owl" THEN And32(w, \h7f) = Opcode.Ecall ELSE w = \h00000073

\* One iteration of the loop of Run (set = "owl") or RunRv32i on r = [cpu, ins, cout,
\* steps, from, set, u]: nothing if the loop has ended, the stretch has (an Ecall was
\* the last thing dispatched since it began at step from) or the bound on iterations is
\* reached.
StretchOver(r) ==
    Done(r.cpu) \/ r.steps >= MaxMainSteps \/ (r.steps > r.from /\ IsEcall(r.set, r.ins))

Iterate(r) ==
    IF StretchOver(r) THEN r
    ELSE LET w == FetchWord(r.cpu, r.u)
             c == FetchCpu(r.cpu)
         IN  [r EXCEPT !.ins = w,
                       !.steps = @ + 1,
                       !.cpu = IF r.set = "owl" THEN DispatchOwl(c, w, r.u)
                               ELSE DispatchRv32i(c, w, r.u),
                       !.cout = @ \o (IF r.set = "owl" THEN OwlOutput(c, w, r.u)
                                      ELSE Rv32iOutput(c, w, r.u))]

\* 2 ^ k iterations, one after the other.
RECURSIVE Iterations(_, _)
Iterations(r, k) ==
    IF StretchOver(r) THEN r
    ELSE IF k = 0 THEN Iterate(r)
    ELSE ByValue(Iterations, Iterations(r, k - 1), k - 1)

\* A stretch of the loop from the present state, under one outcome u of whatever
\* undefined behaviour it meets.
Stretch(u) ==
    Iterations([cpu |-> cpu, ins |-> ins, cout |-> cout, steps |-> steps, from |-> steps,
                set |-> isa, u |-> u], StretchLog)

\* The first RunRv32i(image) has constructed its cpu.
MainInit ==
    /\ big \in BOOLEAN
    /\ isa = "rv32i"
    /\ cpu = OwlCpu(CopyInto([addr \in 0..(memorySize - 1) |-> 0], LoadRv32iImage))
    /\ ins = 0
    /\ loc = "loop"
    /\ cout = <<>>
    /\ steps = 0
    /\ asm = NewAssembler
    /\ log = <<>>

\* RunRv32i's loop: Fetch and DispatchRv32i up to and including the next Ecall.
RunRv32iStretch ==
    /\ loc = "loop"
    /\ isa = "rv32i"
    /\ LoopCond
    /\ steps < MaxMainSteps
    /\ \E u \in UndefWords : \E r \in {Stretch(u)} :
          /\ cpu' = r.cpu
          /\ ins' = r.ins
          /\ cout' = r.cout
          /\ steps' = r.steps
    /\ UNCHANGED <<loc, isa, big, asm, log>>

\* Run's loop: Fetch and DispatchOwl up to and including the next Ecall.
RunStretch ==
    /\ loc = "loop"
    /\ isa = "owl"
    /\ LoopCond
    /\ steps < MaxMainSteps
    /\ \E u \in UndefWords : \E r \in {Stretch(u)} :
          /\ cpu' = r.cpu
          /\ ins' = r.ins
          /\ cout' = r.cout
          /\ steps' = r.steps
    /\ UNCHANGED <<loc, isa, big, asm, log>>

\* The run loop ends, RunRv32i or Run returns and the for loop counts the attempt.
EndAttempt ==
    /\ loc = "loop"
    /\ ~LoopCond
    /\ log' = Append(log, cout)
    /\ loc' = "for"
    /\ UNCHANGED <<cpu, ins, isa, big, cout, steps, asm>>

\* The for loop goes round: the next RunRv32i(image) or Run(image) constructs its cpu.
NextAttempt ==
    /\ loc = "for"
    /\ Len(log) % MaxAttempts # 0
    /\ cpu' = OwlCpu(cpu.memory)
    /\ cout' = <<>>
    /\ steps' = 0
    /\ loc' = "loop"
    /\ UNCHANGED <<ins, isa, big, asm, log>>

\* auto owlImage = Rv32iToOwl(rv32iImage); std::ranges::copy(owlImage, image.begin());
\* and the first Run(image) constructs its cpu.
TranscodeImage ==
    /\ loc = "for"
    /\ isa = "rv32i"
    /\ Len(log) = MaxAttempts
    /\ asm' = TranscodeAll(NewAssembler, LoadRv32iImage)
    /\ cpu' = OwlCpu(CopyInto(cpu.memory, Rv32iToOwl(LoadRv32iImage)))
    /\ isa' = "owl"
    /\ cout' = <<>>
    /\ steps' = 0
    /\ loc' = "loop"
    /\ UNCHANGED <<ins, big, log>>

\* The second for loop ends; main prints its timings and returns.
MainReturn ==
    /\ loc = "for"
    /\ isa = "owl"
    /\ Len(log) = 2 * MaxAttempts
    /\ loc' = "returned"
    /\ UNCHANGED <<cpu, ins, isa, big, cout, steps, asm, log>>

MainNext ==
    \/ RunRv32iStretch \/ RunStretch \/ EndAttempt \/ NextAttempt \/ TranscodeImage
    \/ MainReturn

MainSpec == MainInit /\ [][MainNext]_vars

\* The same on a little-endian host.
MainSpecLE == MainInit /\ ~big /\ [][MainNext]_vars

\* The syscall events of a run end with Exit.
EndsWithExit(events) == events # <<>> /\ events[Len(events)].call = "Exit"

\* Every run of the transcoded image wrote what the run of the RV32I image wrote, and
\* both end with Exit.
RunsAgree ==
    /\ Len(log) = 2 * MaxAttempts
    /\ \A i \in 1..MaxAttempts :
          /\ log[MaxAttempts + i] = log[i]
          /\ EndsWithExit(log[i])
          /\ EndsWithExit(log[MaxAttempts + i])

\* C29: running the built-in RV32I fib image through RunRv32i and running its Rv32iToOwl
\* transcoding through Run both halt (no run loop is still going when its bound on
\* iterations is reached, and main returns), and the two runs produce the same sequence
\* of syscall events (the selector with the values of a0 and a1 at each Ecall), ending
\* with Exit.
C29_SameTrace ==
    /\ loc = "loop" /\ steps >= MaxMainSteps => Done(cpu)
    /\ loc = "for" => EndsWithExit(log[Len(log)])
    /\ loc = "for" /\ Len(log) > MaxAttempts => log[Len(log)] = log[Len(log) - MaxAttempts]
    /\ loc = "returned" => RunsAgree

\* main has returned on a big-endian host: the run of the RV32I image printed fib(0) to
\* fib(47) and exited, the run of its transcoding halted on its first instruction and
\* wrote nothing.
C29_Witness ==
    /\ loc = "returned"
    /\ big
    /\ Len(log[1]) = 49
    /\ EndsWithExit(log[1])
    /\ log[MaxAttempts + 1] = <<>>
    /\ And32(ins, \h7f) = Opcode.Illegal

---------------------------------------------------------------------------
(* Stores into the code the cpu is about to fetch.                         *)

\* After a store of x[r0] at address a, the byte at addr as the guest was promised it:
\* byte addr - a of the stored value, least significant first, inside the store, and
\* the byte of memory elsewhere.
PromisedByte(opcode, addr) ==
    IF addr >= EffectiveAddress(cpu) /\ addr < EffectiveAddress(cpu) + Width(opcode)
    THEN ByteOf(cpu.x[decode_r0(ins)], addr - EffectiveAddress(cpu))
    ELSE cpu.memory[addr]

\* The little-endian word of those bytes at a .. a + 3.
PromisedWord(opcode, a) ==
    Word(PromisedByte(opcode, a + 3) * 256 + PromisedByte(opcode, a + 2),
         PromisedByte(opcode, a + 1) * 256 + PromisedByte(opcode, a))

\* The store just dispatched wrote at least one byte of the word at a.
WroteInto(opcode, a) ==
    /\ Inside(cpu.memory, EffectiveAddress(cpu), Width(opcode))
    /\ EffectiveAddress(cpu) < a + 4
    /\ EffectiveAddress(cpu) + Width(opcode) > a

\* C30: after Sb, Sh or Sw has stored into the bytes of the word at nextPc, the next
\* Fetch returns the little-endian word holding the newly stored bytes (the low bytes
\* of x[r0], least significant first), which is the word the executor then dispatches,
\* not the one the image held.
C30_SelfModify ==
    [][\A opcode \in StoreOpcodes :
            /\ AfterOwl(opcode)
            /\ loc' = "dispatch"
            /\ Inside(cpu.memory, cpu.nextPc, 4)
            /\ WroteInto(opcode, cpu.nextPc)
            => ins' = PromisedWord(opcode, cpu.nextPc)
      ]_vars

\* sw t0, 12(zero) has replaced the ebreak at 12 by li t2, 77, and the cpu has fetched
\* and run the li: t2 is 77 and the run goes on.
C30_Witness ==
    /\ AfterOwl(Opcode.Li)
    /\ steps = 4
    /\ cpu.pc = 12
    /\ ins = Or32(Or32(encode_opc(Opcode.Li), encode_r0(t2)), encode_imm12(77))
    /\ LittleEndianWord(cpu.memory, 8) = Or32(Or32(Or32(encode_opc(Opcode.Sw), encode_r0(t0)),
                                                   encode_r1(zero)), encode_imm12(12))
    /\ cpu.x[t2] = 77
    /\ ~cpu.done


----------------------------------------------------------------------------
(* Run over a memorySize image: programs built with the Assembler and      *)
(* executed from pc = 0 until the run loop ends.                           *)

s0 == 8
s1 == 9

MaxScenarioSteps == 20

\* a.Li(a0, 0x1234); a.Sw(a0, 64, sp); a.Lw(a1, 64, sp); a.Ebreak();
LwSwAssembler ==
    AsmEbreak(AsmLoad(AsmStore(AsmLi(NewAssembler, a0, \h1234), Opcode.Sw, a0, 64, sp),
                      Opcode.Lw, a1, 64, sp))

\* a.Li(a0, 0x234); a.Sw(a0, -64, sp); a.Lw(a1, -64, sp); a.Ebreak();
LwSwInsideAssembler ==
    AsmEbreak(AsmLoad(AsmStore(AsmLi(NewAssembler, a0, \h234), Opcode.Sw, a0, -64, sp),
                      Opcode.Lw, a1, -64, sp))

\* Label f = a.MakeLabel(); a.Call(f); a.Ebreak(); a.BindLabel(f); a.Li(a0, 42); a.Ret();
CallRetAssembler ==
    AsmRet(AsmLi(BindLabel(AsmEbreak(JumpLabel(MakeLabel(NewAssembler), Opcode.Call, 0)), 0),
                 a0, 42))

\* a.Li(s0, 0); a.Li(s1, 5); a.Addi(s0, s0, 1); a.Bltu(s0, s1, -4); a.Ebreak();
LoopAssembler ==
    AsmEbreak(Branch(AsmRegImm(AsmLi(AsmLi(NewAssembler, s0, 0), s1, 5), Opcode.Addi, s0, s0, 1),
                     Opcode.Bltu, s0, s1, -4))

\* n calls of a.Word(0).
Pad(a, n) ==
    [a EXCEPT !.code_ = @ \o [i \in 1..n |-> AsLE32(0)], !.current_ = Add32(@, 4 * n)]

\* a.Lui(t0, a.Hi(l));
LuiHi(a, l) == AsmLui(HiAssembler(a, l), t0, HiValue(a, l))

\* a.Addi(t0, t0, a.Lo(l));
AddiLo(a, l) == AsmRegImm(LoAssembler(a, l), Opcode.Addi, t0, t0, LoValue(a, l))

\* Label l = a.MakeLabel(); a.Lui(t0, a.Hi(l)); a.Addi(t0, t0, a.Lo(l)); a.Ebreak();
\* a.Word(0) up to address; a.BindLabel(l);
HiLoForward(address) ==
    ByValue(BindLabel,
            Pad(AsmEbreak(ByValue(AddiLo, ByValue(LuiHi, MakeLabel(NewAssembler), 0), 0)),
                (address - 12) \div 4),
            0)

\* a.J(address); a.Word(0) up to address; Label l = a.MakeLabel(); a.BindLabel(l);
\* a.Lui(t0, a.Hi(l)); a.Addi(t0, t0, a.Lo(l)); a.Ebreak();
HiLoBackward(address) ==
    AsmEbreak(ByValue(AddiLo,
                      ByValue(LuiHi,
                              ByValue(BindLabel,
                                      MakeLabel(Pad(Jump(NewAssembler, Opcode.J, address),
                                                    (address - 4) \div 4)),
                                      0),
                              0),
                      0))

\* Label addresses inside the image, below and above 0x800.
ForwardAddresses == {12, 2044, 2048, 4092}

BackwardAddresses == {2032, 2048, 4084}

HiLoAssemblers ==
    {HiLoForward(address) : address \in ForwardAddresses}
        \cup {HiLoBackward(address) : address \in BackwardAddresses}

ScenarioAssemblers ==
    {LwSwAssembler, LwSwInsideAssembler, CallRetAssembler, LoopAssembler} \cup HiLoAssemblers

\* std::vector<std::byte> image(memorySize); std::ranges::copy(a.Code(), image); OwlCpu cpu(image);
ScenarioInit ==
    /\ big \in BOOLEAN
    /\ isa = "owl"
    /\ asm \in ScenarioAssemblers
    /\ cpu = OwlCpu(ImageOf(Code(asm).value, memorySize \div 4))
    /\ ins = 0
    /\ loc = "loop"
    /\ cout = <<>>
    /\ steps = 0
    /\ log = <<>>

\* const uint32_t ins = cpu.Fetch(); in Run, for at most MaxScenarioSteps iterations.
ScenarioFetch ==
    /\ loc = "loop"
    /\ LoopCond
    /\ steps < MaxScenarioSteps
    /\ \E u \in UndefWords :
          /\ cpu' = FetchCpu(cpu)
          /\ ins' = FetchWord(cpu, u)
    /\ loc' = "dispatch"
    /\ steps' = steps + 1
    /\ UNCHANGED <<isa, big, cout, asm, log>>

ScenarioNext == ScenarioFetch \/ RunDispatch \/ Return

ScenarioSpec == ScenarioInit /\ [][ScenarioNext]_vars

C32_CallRet ==
    loc = "returned" /\ asm = CallRetAssembler =>
        /\ cpu.done
        /\ cpu.x[a0] = 42
        /\ cpu.x[ra] = 4
        /\ cpu.pc = 4
        /\ steps = 4

C32_Witness ==
    /\ loc = "returned"
    /\ asm = CallRetAssembler
    /\ cpu.x[a0] = 42
    /\ cpu.pc = 4

\* The run loop under the scheduling of a sequential program: an iteration that can be
\* made is made.
ScenarioFairSpec == ScenarioSpec /\ WF_vars(ScenarioNext)

\* In the run of LoopAssembler's code the Bltu at 12 is taken, going back to the Addi at 8,
\* exactly when x[s0] is 1, 2, 3 or 4, and x[s0] never passes 5.
BranchTakenFourTimes ==
    asm = LoopAssembler /\ loc = "loop" /\ cpu.pc = 12 =>
        /\ cpu.x[s0] \in 1..5
        /\ steps = 2 + 2 * cpu.x[s0]
        /\ (cpu.nextPc = 8) = (cpu.x[s0] \in 1..4)
        /\ (cpu.nextPc = 16) = (cpu.x[s0] = 5)

\* C33: the run of Li s0, 0; Li s1, 5; Addi s0, s0, 1; Bltu s0, s1, -4; Ebreak terminates,
\* halted at the Ebreak (pc = 16) with x[s0] = 5 after thirteen instructions (two Li, five
\* rounds of Addi and Bltu, the Ebreak), the Bltu having been taken exactly four times.
C33_LoopTerminates ==
    /\ []BranchTakenFourTimes
    /\ asm = LoopAssembler =>
            <>(loc = "returned" /\ cpu.done /\ cpu.pc = 16 /\ cpu.x[s0] = 5 /\ steps = 13)

C33_Witness ==
    /\ loc = "returned"
    /\ asm = LoopAssembler
    /\ cpu.x[s0] = 5
    /\ steps = 13

\* The run of a HiLoAssemblers program has executed the pair Lui t0, Hi(l); Addi t0, t0, Lo(l).
AfterHiLo == loc = "returned" /\ asm.labels_ # <<>> /\ asm # CallRetAssembler

\* C34: executing the pair Lui r, Hi(L); Addi r, r, Lo(L) leaves x[r] equal to the absolute
\* byte address of L, for every label address inside the 4 KiB image.
C34_HiLo == AfterHiLo => cpu.x[t0] = asm.labels_[1]

C34_Witness ==
    /\ AfterHiLo
    /\ asm.labels_[1] = 2044
    /\ cpu.x[t0] = 2044

----------------------------------------------------------------------------
(* RV32I stores against the RV32I definition of a store.                   *)

\* funct3 of the RV32I store words sb, sh, sw, and the number of bytes each stores.
Rv32iStoreWidth(w) ==
    CASE And32(w, \h0000707f) = \h00000023 -> 1
      [] And32(w, \h0000707f) = \h00001023 -> 2
      [] And32(w, \h0000707f) = \h00002023 -> 4

IsRv32iStore(w) == And32(w, \h0000707f) \in {\h00000023, \h00001023, \h00002023}

\* The address of an RV32I store: x[rs1] plus the sign-extended S-immediate.
Rv32iStoreAddress(c, w) == Add32(c.x[Rs1(w)], StandardS(w))

\* C35: when DispatchRv32i executes an RV32I sb, sh or sw whose bytes are all inside the
\* memory, the memory afterwards holds the low bytes of x[rs2] at x[rs1] + S-immediate,
\* least significant byte first, and every other byte as it was.
C35_Rv32iStore ==
    [][loc = "dispatch" /\ isa = "rv32i" /\ IsRv32iStore(ins)
       /\ Inside(cpu.memory, Rv32iStoreAddress(cpu, ins), Rv32iStoreWidth(ins))
       => cpu'.memory = Stored(cpu.memory, Rv32iStoreAddress(cpu, ins),
                               Rv32iStoreWidth(ins), cpu.x[Rs2(ins)])]_vars

\* sw t0, 20(zero) has been dispatched with x[t0] = 3 and the word at 20 is not 3.
C35_Witness ==
    /\ loc = "loop"
    /\ isa = "rv32i"
    /\ steps = 2
    /\ ins = RvS(20, t0, zero, 2, \h23)
    /\ cpu.x[t0] = 3
    /\ cpu.memory[20] = 0

----------------------------------------------------------------------------
(* The Owl word Transcode emits for an RV32I word, executed in place of it. *)

IsRv32iUpper(w) == And32(w, \h0000007f) \in {\h00000037, \h00000017}

\* What an RV32I lui or auipc at c.pc writes to rd.
Rv32iUpperValue(c, w) ==
    IF And32(w, \h0000007f) = \h00000037 THEN And32(w, Mask20) ELSE Add32(c.pc, And32(w, Mask20))

\* C36: for an RV32I lui or auipc word, DispatchRv32i writes to rd bits 31:12 of the word
\* in the upper 20 bits (plus pc for auipc), and executing the Owl word the transcoder
\* emits for it in the same state writes the same value to rd.
C36_UpperTranscoded ==
    [][loc = "dispatch" /\ isa = "rv32i" /\ IsRv32iUpper(ins)
       => /\ cpu'.x[Rd(ins)] = Rv32iUpperValue(cpu, ins)
          /\ DispatchOwl(cpu, OwlWordFor(ins), 0).x[Rd(ins)] = cpu'.x[Rd(ins)]]_vars

\* lui t2, 0x12345 has been executed by DispatchRv32i and x[t2] is 0x12345000.
C36_Witness ==
    /\ loc = "loop"
    /\ isa = "rv32i"
    /\ steps = 2
    /\ ins = RvU(\h12345000, t2, \h37)
    /\ cpu.x[t2] = \h12345000

IsRv32iBranch(w) ==
    And32(w, \h0000707f) \in {\h00000063, \h00001063, \h00004063, \h00005063, \h00006063, \h00007063}

IsRv32iJal(w) == And32(w, \h0000007f) = \h0000006f

IsRv32iJalr(w) == And32(w, \h0000707f) = \h00000067

\* C37: for every RV32I branch, jal and jalr word, the offset DispatchOwl decodes from the
\* transcoded Owl word (decode::offs12 for branches and Jalr, decode::offs20 for Jal) is
\* the immediate DispatchRv32i passes for the original word: the B-immediate, the
\* J-immediate and the I-immediate.
C37_Offsets ==
    loc \in {"decoded", "rvdispatched"} =>
        /\ IsRv32iBranch(ins) => decode_offs12(OwlWordFor(ins)) = Bimmediate(ins)
        /\ IsRv32iJal(ins) => decode_offs20(OwlWordFor(ins)) = Jimmediate(ins)
        /\ IsRv32iJalr(ins) => decode_offs12(OwlWordFor(ins)) = Iimmediate(ins)

\* bne t1, t0, -4096 has been decoded, and the Owl word made of it holds the same offset.
C37_Witness ==
    /\ loc = "decoded"
    /\ ins = RvB(-4096, t0, t1, 1, \h63)
    /\ Bimmediate(ins) = -4096
    /\ decode_offs12(OwlWordFor(ins)) = -4096

----------------------------------------------------------------------------
(* What an Owl instruction leaves alone.                                   *)

\* Instructions that write no register.
NoRegisterOpcodes ==
    BranchOpcodes \cup StoreOpcodes
        \cup {Opcode.J, Opcode.Ret, Opcode.Fence, Opcode.Ebreak, Opcode.Ecall}

\* Branches, jumps, calls and returns.
ControlOpcodes ==
    BranchOpcodes \cup {Opcode.Jalr, Opcode.Jal, Opcode.J, Opcode.Call, Opcode.Ret}

\* Instructions that write a register.
RegisterOpcodes ==
    {Opcode.Add, Opcode.Sub, Opcode.Sll, Opcode.Slt, Opcode.Sltu, Opcode.Xor, Opcode.Srl,
     Opcode.Sra, Opcode.Or, Opcode.And, Opcode.Slli, Opcode.Srli, Opcode.Srai,
     Opcode.Addi, Opcode.Slti, Opcode.Sltiu, Opcode.Xori, Opcode.Ori, Opcode.Andi,
     Opcode.Jalr, Opcode.Jal, Opcode.Lui, Opcode.Auipc, Opcode.Call, Opcode.Li, Opcode.Mv}
        \cup LoadOpcodes

\* The register such an instruction writes.
Destination(w) == IF And32(w, \h7f) = Opcode.Call THEN ra ELSE decode_r0(w)

\* C38: every instruction changes only what its definition names.  Branches, stores, J,
\* Ret, Fence, Ebreak and Ecall leave all 32 registers unchanged; every instruction other
\* than Sb, Sh and Sw leaves memory unchanged; an instruction that is not a branch, jump,
\* call or return leaves next_pc at pc + 4; a register-writing instruction changes no
\* register other than its destination (ra for Call); and none changes pc.
C38_Frame ==
    [][loc = "dispatch" /\ isa = "owl" =>
        LET opcode == And32(ins, \h7f)
        IN  /\ opcode \in NoRegisterOpcodes => cpu'.x = cpu.x
            /\ opcode \notin StoreOpcodes => cpu'.memory = cpu.memory
            /\ opcode \notin ControlOpcodes =>
                    cpu'.nextPc = cpu.nextPc /\ cpu'.nextPc = Add32(cpu.pc, 4)
            /\ opcode \in RegisterOpcodes =>
                    \A r \in 0..31 : r # Destination(ins) => cpu'.x[r] = cpu.x[r]
            /\ opcode \notin NoRegisterOpcodes \cup RegisterOpcodes => cpu'.x = cpu.x
            /\ cpu'.pc = cpu.pc]_vars

\* A Call at 0 has been executed: ra holds the return address 4, next_pc the target, and
\* sp and every other register are as the constructor left them.
C38_Witness ==
    /\ AfterOwl(Opcode.Call)
    /\ cpu.pc = 0
    /\ cpu.x[ra] = 4
    /\ cpu.nextPc # 4
    /\ cpu.x = [OwlCpu(cpu.memory).x EXCEPT ![ra] = 4]

----------------------------------------------------------------------------
(* The Disassembler's mnemonics.                                           *)

\* The name of a Disassembler method in lower case.
LowerCase ==
    [Ecall |-> "ecall", Ebreak |-> "ebreak", Add |-> "add", Sub |-> "sub", Sll |-> "sll",
     Slt |-> "slt", Sltu |-> "sltu", Xor |-> "xor", Srl |-> "srl", Sra |-> "sra", Or |-> "or",
     And |-> "and", Slli |-> "slli", Srli |-> "srli", Srai |-> "srai", Beq |-> "beq",
     Bne |-> "bne", Blt |-> "blt", Bge |-> "bge", Bltu |-> "bltu", Bgeu |-> "bgeu",
     Addi |-> "addi", Slti |-> "slti", Sltiu |-> "sltiu", Xori |-> "xori", Ori |-> "ori",
     Andi |-> "andi", Lb |-> "lb", Lbu |-> "lbu", Lh |-> "lh", Lhu |-> "lhu", Lw |-> "lw",
     Sb |-> "sb", Sh |-> "sh", Sw |-> "sw", Fence |-> "fence", Jalr |-> "jalr", Jal |-> "jal",
     Lui |-> "lui", Auipc |-> "auipc", J |-> "j", Call |-> "call", Ret |-> "ret", Li |-> "li",
     Mv |-> "mv", Illegal |-> "illegal"]

\* The mnemonic the text of the call d is to begin with.
ExpectedMnemonic(d) ==
    IF d[1] = "Jalr" /\ d[2] = zero /\ d[3] = 0 /\ d[4] = ra THEN "ret"
    ELSE IF d[1] = "Addi" /\ d[3] = zero THEN "li"
    ELSE IF d[1] = "Addi" /\ d[4] = 0 THEN "mv"
    ELSE LowerCase[d[1]]

\* C39: the text a Disassembler method returns begins with the lower-case name of the
\* method, except that Jalr(zero, 0, ra) gives "ret", Addi with r1 = zero gives
\* "li rd, imm" and Addi with imm = 0 gives "mv rd, src".
C39_Mnemonic ==
    loc = "disassembled" =>
        LET d == cout[1]
            text == cout[2]
        IN  /\ text[1] = ExpectedMnemonic(d)
            /\ d[1] = "Addi" /\ d[3] = zero => text = <<"li", regnames[d[2] + 1], d[4]>>
            /\ d[1] = "Addi" /\ d[3] # zero /\ d[4] = 0 =>
                    text = <<"mv", regnames[d[2] + 1], regnames[d[3] + 1]>>

\* Addi(a7, ra, 0) has been disassembled as mv a7, ra.
C39_Witness ==
    /\ loc = "disassembled"
    /\ cout[1] = <<"Addi", a7, ra, 0>>
    /\ cout[2] = <<"mv", "a7", "ra">>

----------------------------------------------------------------------------
(* AsLE on a big-endian host.                                              *)

\* A 16-bit value with its two bytes swapped, a 32-bit value with its four bytes reversed.
Swapped16(v) == ByteOf(v, 0) * 256 + ByteOf(v, 1)

Reversed32(v) ==
    Or32(Or32(Shl32(ByteOf(v, 0), 24), Shl32(ByteOf(v, 1), 16)),
         Or32(Shl32(ByteOf(v, 2), 8), ByteOf(v, 3)))

\* C40: on a big-endian host AsLE of a 16-bit value is the value with its two bytes
\* swapped and AsLE of a 32-bit value is the value with its four bytes reversed, so after
\* Write16(a, v) the byte at a is v's low byte and the byte at a + 1 its high byte, and
\* Read16(a) then returns v.
C40_AsLEBigEndian ==
    big =>
        /\ loc \in {"written32", "read32"} => AsLE32(cout[1].a1) = Reversed32(cout[1].a1)
        /\ loc \in {"written16", "read16"} =>
                /\ AsLE16(cout[1].a1) = Swapped16(cout[1].a1)
                /\ cpu.memory[cout[1].a0] = ByteOf(cout[1].a1, 0)
                /\ cpu.memory[cout[1].a0 + 1] = ByteOf(cout[1].a1, 1)
        /\ loc = "read16" => ins = cout[1].a1

\* On a big-endian host Write16(0, 0x0102) has left the bytes 00 01 at 0 and 1.
C40_Witness ==
    /\ big
    /\ loc = "written16"
    /\ cout[1].a0 = 0 /\ cout[1].a1 = \h0102
    /\ cpu.memory[0] = 0 /\ cpu.memory[1] = 1

===========================================================================
